---- MODULE Spec2Model ----
(***************************************************************************)
(* The eXtended Naor-Yung Signature Scheme (package xnyss) over W-OTS+     *)
(* with w = 256 (package wotsp256).                                        *)
(*                                                                         *)
(* Byte strings of 32 bytes that the code only copies and compares (seeds, *)
(* txids) are natural numbers; 0 is the string of 32 zero bytes and Nil is *)
(* the nil slice.  Messages and W-OTS+ length vectors are sequences of     *)
(* bytes.  SHA-256 is an external collaborator: a hash value is the term   *)
(* [pre |-> preimage] (equal hashes iff equal preimages) and HashBytes     *)
(* gives the 32 bytes of a hash that W-OTS+ reads as base-256 digits.      *)
(* A value on a W-OTS+ chain is the term [seed, ctr, path]: the PRF        *)
(* output it started from and the hash steps applied to it, consecutive    *)
(* steps under the same key material kept as one run [key, from, to].      *)
(***************************************************************************)
EXTENDS Integers, Sequences, FiniteSets, TLC

\* ------------------------------------------------------------------ bounds
MaxSigns == 2        \* successful Sign calls
MaxTrees == 2        \* trees alive
MaxConfirmed == 2    \* pool nodes holding confirmations given by Confirm
MaxConfirmedBackup == 3    \* the same, where Backup moves several nodes
MaxWiped == 1        \* trees whose root seed is zeroed when Wipe is called
MaxConfirmedWipe == 1    \* pool nodes holding confirmations, where Wipe is called
MaxRoutines == 3     \* goroutines of computeChains whose interleavings are explored
MaxRoutineCount == 80    \* values of numRoutines whose chain ranges are checked

\* ------------------------------------------------------- program constants
n == 32
w == 256
l1 == 32
l2 == 2
l == l1 + l2
MsgLen == 32
Uint8 == 256
Uint16 == 65536

Nil == -1

\* Values of the process-wide configuration <<ConfirmsRequired, Branches>>, set
\* before any tree activity: the defaults, and a deeper confirmation depth.
Configs == {<<1, 3>>, <<2, 2>>}

\* Inputs of the callers.
RootSeeds == {1}
RootPubSeeds == {3}
MaxOf(S) == CHOOSE x \in S : \A y \in S : y <= x
\* crypto/rand never returns a seed of the caller.
FirstRandom == MaxOf(RootSeeds \cup RootPubSeeds) + 1
\* A message of MsgLen bytes and one that is a byte too long.
Msgs == {[i \in 1..32 |-> 2], [i \in 1..33 |-> 0]}
Txids == {0, 1}
ConfirmValues == {0, 1, 2}
Counts == {0, 1, 2}

VARIABLES
    ConfirmsRequired,   \* var ConfirmsRequired uint8
    Branches,           \* var Branches
    trees,              \* the NYTree values alive: trees[1] from New, the others from Backup
    rng,                \* crypto/rand: the next fresh 32-byte string
    sigs,               \* the successful Sign calls so far: the node used and the inputs
    last                \* the last call and what it returned

vars == <<ConfirmsRequired, Branches, trees, rng, sigs, last>>

\* ================================================================ wotsp256

ZeroAddress ==
    [layer |-> 0, tree |-> 0, type |-> 0, ots |-> 0, chain |-> 0, hash |-> 0, km |-> 0]

setChain(adrs, c) == [adrs EXCEPT !.chain = c]

\* Copies x into a zeroed outlen-byte slice.
base256(x, outlen) == [i \in 1..outlen |-> IF i <= Len(x) THEN x[i] ELSE 0]

\* PRF keyed with the private seed, on the counter ctr: one private-key element.
prfPrivSeed(seed, ctr) == [seed |-> seed, ctr |-> ctr, path |-> <<>>]

expandSeed(seed) == [i \in 1..l |-> prfPrivSeed(seed, i - 1)]

\* What key and bitmask of a chain step depend on, besides the hash index:
\* the public seed and the address fields other than Hash and KeyAndMask.
StepKey(adrs, pubSeed) ==
    [ps |-> pubSeed, layer |-> adrs.layer, tree |-> adrs.tree, type |-> adrs.type,
     ots |-> adrs.ots, chain |-> adrs.chain]

\* The steps with hash indices from .. to-1 applied to the chain value in.
ApplySteps(in, key, from, to) ==
    LET k == Len(in.path) IN
    IF k > 0 /\ in.path[k].key = key /\ in.path[k].to = from
    THEN [in EXCEPT !.path[k].to = to]
    ELSE [in EXCEPT !.path = Append(@, [key |-> key, from |-> from, to |-> to])]

\* chain with the loop running while i <= start+steps.
chainInclusive(in, start, steps, adrs, pubSeed) ==
    LET bound == (start + steps) % Uint8 IN
    IF start <= bound THEN ApplySteps(in, StepKey(adrs, pubSeed), start, bound + 1) ELSE in

\* for i := start; i < start+steps; i++ with uint8 start, steps and i.
chain(in, start, steps, adrs, pubSeed) ==
    LET bound == (start + steps) % Uint8 IN
    IF start < bound THEN ApplySteps(in, StepKey(adrs, pubSeed), start, bound) ELSE in

\* GenPublicKey with chains a step short of the end.
wotspGenPublicKeyShort(seed, pubSeed, adrs) ==
    LET privKey == expandSeed(seed) IN
    [i \in 1..l |-> chain(privKey[i], 0, w - 2, setChain(adrs, i - 1), pubSeed)]

wotspGenPublicKey(seed, pubSeed, adrs) ==
    LET privKey == expandSeed(seed) IN
    [i \in 1..l |-> chain(privKey[i], 0, w - 1, setChain(adrs, i - 1), pubSeed)]

RECURSIVE SumUpTo(_, _)
SumUpTo(f, k) == IF k = 0 THEN 0 ELSE f[k] + SumUpTo(f, k - 1)

checksum(msg) ==
    LET csum == SumUpTo([i \in 1..l1 |-> w - 1 - msg[i]], l1)
        shifted == csum * 256
        u16 == shifted % Uint16
        csumBytes == <<u16 \div 256, u16 % 256>>
    IN base256(csumBytes, l2)

Lengths(msg) ==
    LET lengths == base256(msg, l1) IN lengths \o checksum(lengths)

\* Sign with the private key expanded from the public seed.
wotspSignPubSeed(msg, seed, pubSeed, adrs) ==
    LET privKey == expandSeed(pubSeed)
        lengths == Lengths(msg)
    IN [i \in 1..l |-> chain(privKey[i], 0, lengths[i], setChain(adrs, i - 1), pubSeed)]

wotspSign(msg, seed, pubSeed, adrs) ==
    LET privKey == expandSeed(seed)
        lengths == Lengths(msg)
    IN [i \in 1..l |-> chain(privKey[i], 0, lengths[i], setChain(adrs, i - 1), pubSeed)]

\* PkFromSig that asks every chain for w-1 steps from its start index.
wotspPkFromSigFullChain(sig, msg, pubSeed, adrs) ==
    LET lengths == Lengths(msg) IN
    [i \in 1..l |-> chain(sig[i], lengths[i], w - 1, setChain(adrs, i - 1), pubSeed)]

wotspPkFromSig(sig, msg, pubSeed, adrs) ==
    LET lengths == Lengths(msg) IN
    [i \in 1..l |->
        chain(sig[i], lengths[i], w - 1 - lengths[i], setChain(adrs, i - 1), pubSeed)]

wotspVerify(pk, sig, msg, pubSeed, adrs) == pk = wotspPkFromSig(sig, msg, pubSeed, adrs)

\* ================================================================== sha256

Sha256(pre) == [pre |-> pre]

\* A number read off a public-key hash.
PkhCode(h) == (h.pre[1].seed * 13 + h.pre[1].ctr + 5 * Len(h.pre[1].path)) % 251

\* The 32 bytes of the hash of msg || child hashes.
HashBytes(h) ==
    LET m == h.pre.msg
        ch == h.pre.ch
        c == (SumUpTo(m, Len(m)) + 31 * Len(m)
              + SumUpTo([j \in 1..Len(ch) |-> (j + 1) * PkhCode(ch[j])], Len(ch))) % 251
    IN [i \in 1..32 |-> (c * i + 7 * i * i + c) % 256]

\* ============================================================= signature.go

Signature(sigBytes, pubSeed, message, childHashes) ==
    [SigBytes |-> sigBytes, PubSeed |-> pubSeed, Message |-> message,
     ChildHashes |-> childHashes]

\* Signature.PublicKey with the digest taken over the message alone.
SigPublicKeyNoChildren(sig) ==
    IF Len(sig.Message) = 0
    THEN [err |-> "ErrSigMsgNotSet", pk |-> <<>>]
    ELSE [err |-> "",
          pk |-> wotspPkFromSig(sig.SigBytes,
                                HashBytes(Sha256([msg |-> sig.Message, ch |-> <<>>])),
                                sig.PubSeed, ZeroAddress)]

\* Signature.PublicKey: the error, or the recovered W-OTS+ public key.
SigPublicKey(sig) ==
    IF Len(sig.Message) = 0
    THEN [err |-> "ErrSigMsgNotSet", pk |-> <<>>]
    ELSE [err |-> "",
          pk |-> wotspPkFromSig(sig.SigBytes,
                                HashBytes(Sha256([msg |-> sig.Message, ch |-> sig.ChildHashes])),
                                sig.PubSeed, ZeroAddress)]

\* ================================================================== node.go

nyNode(privSeed, pubSeed, txid, confirms) ==
    [privSeed |-> privSeed, pubSeed |-> pubSeed, txid |-> txid, confirms |-> confirms]

\* wotsp.GenPublicKey(privSeed, pubSeed, &wotsp.Address{}) for every key pair a
\* node may hold, computed once.
SeedValues == 0..(FirstRandom + 2 * MaxSigns * MaxOf({c[2] : c \in Configs}))

PubKeys ==
    [privSeed \in SeedValues |->
        [pubSeed \in SeedValues |-> wotspGenPublicKey(privSeed, pubSeed, ZeroAddress)]]

genPubKey(node) == PubKeys[node.privSeed][node.pubSeed]

\* sha256.Sum256(node.genPubKey())
NodePkh(node) == Sha256(genPubKey(node))

\* Branches * 64 random bytes: 32 for the privSeed and 32 for the pubSeed of each
\* child; branches is the value of Branches the call reads.
childNodes(txid, rnd, branches) ==
    [i \in 1..branches |-> nyNode(rnd + 2 * (i - 1), rnd + 2 * (i - 1) + 1, txid, 0)]

\* nyNode.sign, its three results: the error (of the RNG), the child nodes and
\* the signature.
nodeSignErr(ots, rngOk) == IF ~ots /\ ~rngOk THEN "RngFailure" ELSE ""

nodeSignChildren(txid, ots, rnd, branches) ==
    IF ots THEN <<>> ELSE childNodes(txid, rnd, branches)

nodeSignSig(node, msg, txid, ots, rnd, branches) ==
    LET children == nodeSignChildren(txid, ots, rnd, branches)
        childHashes == [i \in 1..Len(children) |-> NodePkh(children[i])]
        inner == HashBytes(Sha256([msg |-> msg, ch |-> childHashes]))
        sigBytes == wotspSign(inner, node.privSeed, node.pubSeed, ZeroAddress)
    IN Signature(sigBytes, node.pubSeed, msg, childHashes)

\* ================================================================== tree.go

\* New with a root node that has no confirmations.
NewUnconfirmed(seed, pubSeed, ots) ==
    [nodes |-> <<nyNode(seed, pubSeed, 0, 0)>>,
     rootSeed |-> seed, rootPubSeed |-> pubSeed, ots |-> ots]

New(seed, pubSeed, ots) ==
    [nodes |-> <<nyNode(seed, pubSeed, 0, ConfirmsRequired)>>,
     rootSeed |-> seed, rootPubSeed |-> pubSeed, ots |-> ots]

PublicKey(t) == wotspGenPublicKey(t.rootSeed, t.rootPubSeed, ZeroAddress)

\* The index (from 0) at which a loop over the list stops: the first position
\* whose test holds, or -1.
FirstIndex(tests) ==
    IF \E i \in 1..Len(tests) : tests[i]
    THEN (CHOOSE i \in 1..Len(tests) : tests[i] /\ \A j \in 1..(i - 1) : ~tests[j]) - 1
    ELSE -1

HasTxid(node, txid) == node.txid = txid
IsConfirmed(node) == node.confirms >= ConfirmsRequired
FirstWithTxid(nodes, txid) == FirstIndex([i \in 1..Len(nodes) |-> HasTxid(nodes[i], txid)])
FirstConfirmed(nodes) == FirstIndex([i \in 1..Len(nodes) |-> IsConfirmed(nodes[i])])

\* getSignNode with one loop: the first node that has the txid or is confirmed.
getSignNodeOnePass(t, txid) ==
    FirstIndex([i \in 1..Len(t.nodes) |->
                   HasTxid(t.nodes[i], txid) \/ IsConfirmed(t.nodes[i])])

\* getSignNode without its second loop.
getSignNodeTxidOnly(t, txid) == FirstWithTxid(t.nodes, txid)

\* getSignNode whose second pass asks for more than ConfirmsRequired confirmations.
getSignNodeStrict(t, txid) ==
    LET same == FirstWithTxid(t.nodes, txid) IN
    IF same >= 0 THEN same
    ELSE FirstIndex([i \in 1..Len(t.nodes) |-> t.nodes[i].confirms > ConfirmsRequired])

getSignNode(t, txid) ==
    LET same == FirstWithTxid(t.nodes, txid) IN
    IF same >= 0 THEN same ELSE FirstConfirmed(t.nodes)

\* Removal that moves the last node into the place of the removed one.
RemoveAtSwap(nodes, index) ==
    SubSeq([nodes EXCEPT ![index + 1] = nodes[Len(nodes)]], 1, Len(nodes) - 1)

\* append(nodes[:index], nodes[index+1:]...)
RemoveAt(nodes, index) == SubSeq(nodes, 1, index) \o SubSeq(nodes, index + 2, Len(nodes))

\* Sign without "Remove used node from the tree".
SignPoolKeepsNode(t, index, children) ==
    IF ~t.ots /\ children # <<>> THEN t.nodes \o children ELSE t.nodes

\* Sign that removes the node after the selected one.
SignPoolOffByOne(t, index, children) ==
    LET rest == SubSeq(t.nodes, 1, index + 1) \o SubSeq(t.nodes, index + 3, Len(t.nodes)) IN
    IF ~t.ots /\ children # <<>> THEN rest \o children ELSE rest

\* Sign that appends all child nodes but the last.
SignPoolDropsLastChild(t, index, children) ==
    LET rest == RemoveAt(t.nodes, index) IN
    IF ~t.ots /\ children # <<>> THEN rest \o SubSeq(children, 1, Len(children) - 1) ELSE rest

\* The pool of t after a successful Sign that used node index.
SignPool(t, index, children) ==
    LET rest == RemoveAt(t.nodes, index) IN
    IF ~t.ots /\ children # <<>> THEN rest \o children ELSE rest

\* What the caller of the last call saw: the method called, the error returned
\* and, of a Backup that failed, the tree returned with the error.
NoTree == <<>>
Called(op, err) == [op |-> op, err |-> err, ret |-> NoTree]

\* Sign without the check of the message length.
SignErrNoLenCheck(tree, msg, txid, rngOk) ==
    IF getSignNode(tree, txid) < 0 THEN "ErrTreeNoneAvailable"
    ELSE nodeSignErr(tree.ots, rngOk)

\* The error Sign returns, "" when it returns a signature.
SignErr(tree, msg, txid, rngOk) ==
    IF Len(msg) > MsgLen THEN "ErrInvalidMsgLen"
    ELSE IF getSignNode(tree, txid) < 0 THEN "ErrTreeNoneAvailable"
    ELSE nodeSignErr(tree.ots, rngOk)

Sign(t, msg, txid, rngOk) ==
    LET tree == trees[t]
        index == getSignNode(tree, txid)
        err == SignErr(tree, msg, txid, rngOk)
        children == nodeSignChildren(txid, tree.ots, rng, Branches)
    IN IF err # ""
       THEN /\ last' = Called("Sign", err)
            /\ UNCHANGED <<ConfirmsRequired, Branches, trees, rng, sigs>>
       ELSE /\ Len(sigs) < MaxSigns
            /\ trees' = [trees EXCEPT ![t].nodes = SignPool(tree, index, children)]
            /\ rng' = rng + 2 * Len(children)
            /\ sigs' = Append(sigs, [t |-> t, index |-> index, node |-> tree.nodes[index + 1],
                                     msg |-> msg, txid |-> txid, ots |-> tree.ots, rnd |-> rng])
            /\ last' = Called("Sign", "")
            /\ UNCHANGED <<ConfirmsRequired, Branches>>

\* The signatures node.sign returns and the public keys Signature.PublicKey
\* recovers from them, computed once: for every value of Branches, every key
\* pair a node may hold, every message and every position of the random source
\* at which a Sign call may start.
BranchValues == {c[2] : c \in Configs}
KeyPairs ==
    {<<seed, pubSeed>> : seed \in RootSeeds, pubSeed \in RootPubSeeds}
    \cup {<<FirstRandom + 2 * j, FirstRandom + 2 * j + 1>> :
             j \in 0..(MaxSigns * MaxOf(BranchValues) - 1)}
SignRnds(branches) == {FirstRandom + 2 * branches * k : k \in 0..(MaxSigns - 1)}

Signed ==
    [branches \in BranchValues |-> [kp \in KeyPairs |-> [msg \in Msgs |->
        [ots \in BOOLEAN |-> [rnd \in SignRnds(branches) |->
            nodeSignSig(nyNode(kp[1], kp[2], 0, 0), msg, 0, ots, rnd, branches)]]]]]

Recovered ==
    [branches \in BranchValues |-> [kp \in KeyPairs |-> [msg \in Msgs |->
        [ots \in BOOLEAN |-> [rnd \in SignRnds(branches) |->
            SigPublicKey(Signed[branches][kp][msg][ots][rnd])]]]]]

\* The signature a logged Sign call returned, what PublicKey gives for it, and
\* the nodes the call appended.
SigOf(e) == Signed[Branches][<<e.node.privSeed, e.node.pubSeed>>][e.msg][e.ots][e.rnd]
SigPublicKeyOf(e) ==
    Recovered[Branches][<<e.node.privSeed, e.node.pubSeed>>][e.msg][e.ots][e.rnd]
ChildrenOf(e) == nodeSignChildren(e.txid, e.ots, e.rnd, Branches)

\* Unconfirmed that skips only the nodes with more than ConfirmsRequired
\* confirmations.
UnconfirmedIdxsSkipsAbove(t) ==
    LET RECURSIVE Scan(_)
        Scan(i) == IF i > Len(t.nodes) THEN <<>>
                   ELSE IF t.nodes[i].confirms > ConfirmsRequired THEN Scan(i + 1)
                   ELSE <<i - 1>> \o Scan(i + 1)
    IN Scan(1)

\* The indices of the nodes Unconfirmed hashes, and the hashes it returns.
UnconfirmedIdxs(t) ==
    LET RECURSIVE Scan(_)
        Scan(i) == IF i > Len(t.nodes) THEN <<>>
                   ELSE IF t.nodes[i].confirms >= ConfirmsRequired THEN Scan(i + 1)
                   ELSE <<i - 1>> \o Scan(i + 1)
    IN Scan(1)

UnconfirmedHashes(t) ==
    LET idxs == UnconfirmedIdxs(t) IN [i \in 1..Len(idxs) |-> NodePkh(t.nodes[idxs[i] + 1])]

Unconfirmed(t) ==
    /\ last' = Called("Unconfirmed", "")
    /\ UNCHANGED <<ConfirmsRequired, Branches, trees, rng, sigs>>

\* Confirm that does not skip the nodes already confirmed.
ConfirmNodesNoSkip(nodes, pkh, confirms) ==
    [i \in 1..Len(nodes) |->
        IF pkh = NodePkh(nodes[i]) THEN [nodes[i] EXCEPT !.confirms = confirms]
        ELSE nodes[i]]

\* Confirm that skips only the nodes with more than ConfirmsRequired confirmations.
ConfirmNodesSkipsAbove(nodes, pkh, confirms) ==
    [i \in 1..Len(nodes) |->
        IF nodes[i].confirms > ConfirmsRequired THEN nodes[i]
        ELSE IF pkh = NodePkh(nodes[i]) THEN [nodes[i] EXCEPT !.confirms = confirms]
        ELSE nodes[i]]

\* The pool after Confirm(pkh, confirms).
ConfirmNodes(nodes, pkh, confirms) ==
    [i \in 1..Len(nodes) |->
        IF nodes[i].confirms >= ConfirmsRequired THEN nodes[i]
        ELSE IF pkh = NodePkh(nodes[i]) THEN [nodes[i] EXCEPT !.confirms = confirms]
        ELSE nodes[i]]

\* The pool nodes, over all trees, that a Confirm call has given confirmations.
Touched ==
    Cardinality(UNION {{<<t, i>> : i \in {j \in 1..Len(trees[t].nodes) :
                                            /\ trees[t].nodes[j].confirms > 0
                                            /\ trees[t].nodes[j].privSeed >= FirstRandom}}
                       : t \in 1..Len(trees)})

\* Confirm(pkh, confirms) with pkh the hash of the public key of the key pair
\* of, while at most max pool nodes hold confirmations.
ConfirmUpTo(t, of, confirms, max) ==
    LET nodes == ConfirmNodes(trees[t].nodes, NodePkh(of), confirms) IN
    /\ (\E i \in 1..Len(nodes) : trees[t].nodes[i].confirms = 0 /\ nodes[i].confirms > 0)
          => Touched < max
    /\ trees' = [trees EXCEPT ![t].nodes = nodes]
    /\ last' = Called("Confirm", "")
    /\ UNCHANGED <<ConfirmsRequired, Branches, rng, sigs>>

Confirm(t, of, confirms) == ConfirmUpTo(t, of, confirms, MaxConfirmed)

\* Available that counts the txid matches and the confirmed nodes apart.
AvailableCountTwice(t, txid) ==
    Cardinality({i \in 1..Len(t.nodes) : t.nodes[i].txid = txid})
    + Cardinality({i \in 1..Len(t.nodes) : t.nodes[i].confirms >= ConfirmsRequired})

\* Available that reads the nil txid as the txid of 32 zero bytes.
AvailableCountNilZero(t, txid) ==
    Cardinality({i \in 1..Len(t.nodes) :
                    \/ t.nodes[i].txid = (IF txid = Nil THEN 0 ELSE txid)
                    \/ t.nodes[i].confirms >= ConfirmsRequired})

AvailableCount(t, txid) ==
    Cardinality({i \in 1..Len(t.nodes) :
                    t.nodes[i].txid = txid \/ t.nodes[i].confirms >= ConfirmsRequired})

Available(t, txid) ==
    /\ last' = Called("Available", "")
    /\ UNCHANGED <<ConfirmsRequired, Branches, trees, rng, sigs>>

\* The loop of Backup taking the last confirmed node in each pass.
RECURSIVE BackupMoveFromEnd(_, _, _)
BackupMoveFromEnd(nodes, moved, left) ==
    IF left <= 0 THEN [self |-> nodes, backup |-> moved]
    ELSE LET S == {i \in 1..Len(nodes) : IsConfirmed(nodes[i])} IN
         IF S = {} THEN BackupMoveFromEnd(nodes, moved, left - 1)
         ELSE LET i == MaxOf(S) IN
              BackupMoveFromEnd(RemoveAt(nodes, i - 1), Append(moved, nodes[i]), left - 1)

\* The loop of Backup, with left passes to go: the nodes left in t and the
\* nodes moved to the backup.
RECURSIVE BackupMove(_, _, _)
BackupMove(nodes, moved, left) ==
    IF left <= 0 THEN [self |-> nodes, backup |-> moved]
    ELSE LET i == FirstConfirmed(nodes) IN
         IF i < 0 THEN BackupMove(nodes, moved, left - 1)
         ELSE BackupMove(RemoveAt(nodes, i), Append(moved, nodes[i + 1]), left - 1)

\* Backup running its loop before it compares count with Available(nil).
BackupChecksAfterLoop(t, count) ==
    LET tree == trees[t]
        backup == [nodes |-> <<>>, rootSeed |-> 0, rootPubSeed |-> 0, ots |-> tree.ots]
        r == BackupMove(tree.nodes, <<>>, count)
    IN IF tree.ots
       THEN /\ last' = Called("Backup", "ErrTreeBackupOneTime")
            /\ UNCHANGED <<ConfirmsRequired, Branches, trees, rng, sigs>>
       ELSE IF count >= AvailableCount(tree, Nil)
       THEN /\ last' = [Called("Backup", "ErrTreeBackupFailed") EXCEPT !.ret = backup]
            /\ trees' = [trees EXCEPT ![t].nodes = r.self]
            /\ UNCHANGED <<ConfirmsRequired, Branches, rng, sigs>>
       ELSE /\ Len(trees) < MaxTrees
            /\ trees' = Append([trees EXCEPT ![t].nodes = r.self],
                               [backup EXCEPT !.rootSeed = tree.rootSeed,
                                              !.rootPubSeed = tree.rootPubSeed,
                                              !.nodes = r.backup])
            /\ last' = Called("Backup", "")
            /\ UNCHANGED <<ConfirmsRequired, Branches, rng, sigs>>

Backup(t, count) ==
    LET tree == trees[t]
        backup == [nodes |-> <<>>, rootSeed |-> 0, rootPubSeed |-> 0, ots |-> tree.ots]
        r == BackupMove(tree.nodes, <<>>, count)
    IN IF tree.ots
       THEN /\ last' = Called("Backup", "ErrTreeBackupOneTime")
            /\ UNCHANGED <<ConfirmsRequired, Branches, trees, rng, sigs>>
       ELSE IF count >= AvailableCount(tree, Nil)
       THEN /\ last' = [Called("Backup", "ErrTreeBackupFailed") EXCEPT !.ret = backup]
            /\ UNCHANGED <<ConfirmsRequired, Branches, trees, rng, sigs>>
       ELSE /\ Len(trees) < MaxTrees
            /\ trees' = Append([trees EXCEPT ![t].nodes = r.self],
                               [backup EXCEPT !.rootSeed = tree.rootSeed,
                                              !.rootPubSeed = tree.rootPubSeed,
                                              !.nodes = r.backup])
            /\ last' = Called("Backup", "")
            /\ UNCHANGED <<ConfirmsRequired, Branches, rng, sigs>>

\* The key pairs whose public-key hash the caller of Confirm passes: those of
\* the pool nodes and of the root.
KnownNodes(t) ==
    {nyNode(t.rootSeed, t.rootPubSeed, 0, 0)}
    \cup {[t.nodes[i] EXCEPT !.txid = 0, !.confirms = 0] : i \in 1..Len(t.nodes)}

Init ==
    /\ \E c \in Configs : ConfirmsRequired = c[1] /\ Branches = c[2]
    /\ \E seed \in RootSeeds, pubSeed \in RootPubSeeds, ots \in BOOLEAN :
          /\ trees = <<New(seed, pubSeed, ots)>>
          /\ last = Called("New", "")
    /\ rng = FirstRandom
    /\ sigs = <<>>

Next ==
    \/ \E t \in 1..Len(trees), msg \in Msgs, txid \in Txids, rngOk \in BOOLEAN :
          Sign(t, msg, txid, rngOk)
    \/ \E t \in 1..Len(trees), confirms \in ConfirmValues :
          \E of \in KnownNodes(trees[t]) : Confirm(t, of, confirms)
    \/ \E t \in 1..Len(trees) : Unconfirmed(t)
    \/ \E t \in 1..Len(trees), txid \in Txids \cup {Nil} : Available(t, txid)
    \/ \E t \in 1..Len(trees), count \in Counts : Backup(t, count)

Spec == Init /\ [][Next]_vars

\* The same operations, with room for the confirmations that a Backup of
\* several nodes needs.
NextBackup ==
    \/ \E t \in 1..Len(trees), msg \in Msgs, txid \in Txids, rngOk \in BOOLEAN :
          Sign(t, msg, txid, rngOk)
    \/ \E t \in 1..Len(trees), confirms \in ConfirmValues :
          \E of \in KnownNodes(trees[t]) : ConfirmUpTo(t, of, confirms, MaxConfirmedBackup)
    \/ \E t \in 1..Len(trees) : Unconfirmed(t)
    \/ \E t \in 1..Len(trees), txid \in Txids \cup {Nil} : Available(t, txid)
    \/ \E t \in 1..Len(trees), count \in Counts : Backup(t, count)

SpecBackup == Init /\ [][NextBackup]_vars

\* ------------------------------------------------------------ Bytes and Load

\* The 32 bytes of a seed or txid, most significant byte first, and the value
\* that 32 bytes stand for.
Bytes32(x) == [i \in 1..32 |-> IF i >= 29 THEN (x \div (256 ^ (32 - i))) % 256 ELSE 0]

RECURSIVE ValueUpTo(_, _)
ValueUpTo(b, k) == IF k = 0 THEN 0 ELSE 256 * ValueUpTo(b, k - 1) + b[k]

\* The leading zero bytes of a short value are skipped in one step.
Value32(b) ==
    IF \A i \in 1..28 : b[i] = 0
    THEN ((b[29] * 256 + b[30]) * 256 + b[31]) * 256 + b[32]
    ELSE ValueUpTo(b, 32)

\* node.go: the encoding of a node and its length.
nodeByteLen == 97

nodeBytes(node) ==
    Bytes32(node.privSeed) \o Bytes32(node.pubSeed) \o Bytes32(node.txid) \o <<node.confirms>>

\* node.go: the node at the head of b, the bytes read and the error.
loadNode(b) ==
    IF Len(b) < nodeByteLen
    THEN [node |-> nyNode(0, 0, 0, 0), bytesRead |-> 0, err |-> "ErrNodeInvalidInput"]
    ELSE [node |-> nyNode(Value32(SubSeq(b, 1, 32)), Value32(SubSeq(b, 33, 64)),
                          Value32(SubSeq(b, 65, 96)), b[97]),
          bytesRead |-> nodeByteLen, err |-> ""]

RECURSIVE AllNodeBytes(_)
AllNodeBytes(nodes) ==
    IF nodes = <<>> THEN <<>> ELSE nodeBytes(Head(nodes)) \o AllNodeBytes(Tail(nodes))

\* Bytes writing the public seed of the root before its secret seed.
TreeBytesPubSeedFirst(tree) ==
    <<IF tree.ots THEN 1 ELSE 0>> \o Bytes32(tree.rootPubSeed) \o Bytes32(tree.rootSeed)
        \o AllNodeBytes(tree.nodes)

\* The byte representation of a tree.
TreeBytes(tree) ==
    <<IF tree.ots THEN 1 ELSE 0>> \o Bytes32(tree.rootSeed) \o Bytes32(tree.rootPubSeed)
        \o AllNodeBytes(tree.nodes)

Bytes(t) ==
    /\ last' = [Called("Bytes", "") EXCEPT !.ret = TreeBytes(trees[t])]
    /\ UNCHANGED <<ConfirmsRequired, Branches, trees, rng, sigs>>

\* The loop of Load keeping the nodes read so far when a node fails to load.
RECURSIVE LoadNodesKeepsPartial(_, _, _)
LoadNodesKeepsPartial(b, offset, nodes) ==
    IF offset >= Len(b) THEN [nodes |-> nodes, err |-> ""]
    ELSE LET r == loadNode(SubSeq(b, offset + 1, Len(b))) IN
         IF r.err # "" THEN [nodes |-> nodes, err |-> ""]
         ELSE LoadNodesKeepsPartial(b, offset + r.bytesRead, Append(nodes, r.node))

\* The loop of Load from the given offset (from 0): the nodes read, or the
\* error of loadNode.
RECURSIVE LoadNodes(_, _, _)
LoadNodes(b, offset, nodes) ==
    IF offset >= Len(b) THEN [nodes |-> nodes, err |-> ""]
    ELSE LET r == loadNode(SubSeq(b, offset + 1, Len(b))) IN
         IF r.err # "" THEN [nodes |-> <<>>, err |-> r.err]
         ELSE LoadNodes(b, offset + r.bytesRead, Append(nodes, r.node))

\* Load reading the secret seed where the public seed is and the reverse.
LoadTreeSeedsSwapped(b) ==
    IF Len(b) < 65 THEN [tree |-> NoTree, err |-> "ErrTreeInvalidInput"]
    ELSE LET r == LoadNodes(b, 65, <<>>) IN
         IF r.err # "" THEN [tree |-> NoTree, err |-> r.err]
         ELSE [tree |-> [nodes |-> r.nodes,
                         rootSeed |-> Value32(SubSeq(b, 34, 65)),
                         rootPubSeed |-> Value32(SubSeq(b, 2, 33)),
                         ots |-> (b[1] = 1)],
               err |-> ""]

\* Load as a function of its input: the tree and the error.
LoadTree(b) ==
    IF Len(b) < 65 THEN [tree |-> NoTree, err |-> "ErrTreeInvalidInput"]
    ELSE LET r == LoadNodes(b, 65, <<>>) IN
         IF r.err # "" THEN [tree |-> NoTree, err |-> r.err]
         ELSE [tree |-> [nodes |-> r.nodes,
                         rootSeed |-> Value32(SubSeq(b, 2, 33)),
                         rootPubSeed |-> Value32(SubSeq(b, 34, 65)),
                         ots |-> (b[1] = 1)],
               err |-> ""]

Load(b) ==
    /\ LET r == LoadTree(b) IN last' = [Called("Load", r.err) EXCEPT !.ret = r.tree]
    /\ UNCHANGED <<ConfirmsRequired, Branches, trees, rng, sigs>>

\* The buffers a caller passes to Load: what Bytes gave, and that with its
\* nodes cut off, a byte or a node short, a byte too long, another flag byte,
\* and the empty buffer.
LoadInputs(b) ==
    {b, SubSeq(b, 1, 65), SubSeq(b, 1, 64), SubSeq(b, 1, Len(b) - 1),
     SubSeq(b, 1, Len(b) - nodeByteLen), b \o <<0>>, [b EXCEPT ![1] = 2], <<>>}

NextBytes ==
    \/ \E t \in 1..Len(trees), msg \in Msgs, txid \in Txids, rngOk \in BOOLEAN :
          Sign(t, msg, txid, rngOk)
    \/ \E t \in 1..Len(trees), confirms \in ConfirmValues :
          \E of \in KnownNodes(trees[t]) : Confirm(t, of, confirms)
    \/ \E t \in 1..Len(trees) : Unconfirmed(t)
    \/ \E t \in 1..Len(trees), txid \in Txids \cup {Nil} : Available(t, txid)
    \/ \E t \in 1..Len(trees), count \in Counts : Backup(t, count)
    \/ \E t \in 1..Len(trees) : Bytes(t)
    \/ \E t \in 1..Len(trees) : \E b \in LoadInputs(TreeBytes(trees[t])) : Load(b)

SpecBytes == Init /\ [][NextBytes]_vars

\* --------------------------------------------------------------------- Wipe

\* node.go: wipe zeroes the private seed of a node.
nodeWipe(node) == [node EXCEPT !.privSeed = 0]

\* Wipe that leaves the root seed of the tree as it is.
WipeTreeNodesOnly(tree) ==
    [tree EXCEPT !.nodes = [i \in 1..Len(tree.nodes) |-> nodeWipe(tree.nodes[i])]]

WipeTree(tree) ==
    [tree EXCEPT !.nodes = [i \in 1..Len(tree.nodes) |-> nodeWipe(tree.nodes[i])],
                 !.rootSeed = 0]

Wipe(t) ==
    /\ Cardinality({u \in 1..Len(trees) : trees[u].rootSeed = 0}) < MaxWiped
    /\ trees' = [trees EXCEPT ![t] = WipeTree(trees[t])]
    /\ last' = Called("Wipe", "")
    /\ UNCHANGED <<ConfirmsRequired, Branches, rng, sigs>>

\* The operations that change a tree, and Wipe.
NextWipe ==
    \/ \E t \in 1..Len(trees), msg \in Msgs, txid \in Txids, rngOk \in BOOLEAN :
          Sign(t, msg, txid, rngOk)
    \/ \E t \in 1..Len(trees), confirms \in ConfirmValues :
          \E of \in KnownNodes(trees[t]) : ConfirmUpTo(t, of, confirms, MaxConfirmedWipe)
    \/ \E t \in 1..Len(trees), count \in Counts : Backup(t, count)
    \/ \E t \in 1..Len(trees) : Wipe(t)

SpecWipe == Init /\ [][NextWipe]_vars

\* --------------------------------------------------- callers of wotsp256

SigLen == l * n
PubKeyLen == l * n

\* Inputs of a caller of the W-OTS+ functions: seeds, addresses, messages to
\* sign and to verify against, and the split points of a chain.
WotsSeeds == {1, 2}
WotsPubSeeds == {3, 4}
WotsAddrs == {ZeroAddress, [ZeroAddress EXCEPT !.ots = 1, !.chain = 5, !.hash = 9]}
WotsMsgs ==
    {[i \in 1..32 |-> IF i <= k THEN a ELSE b] : k \in {0, 1, 2}, a \in {0, 128, 255}, b \in {0, 255}}
ChainSplits == {0, 1, 128, 255}

WotsInputs ==
    [seed : WotsSeeds, pubSeed : WotsPubSeeds, adrs : WotsAddrs, msg : WotsMsgs,
     vmsg : WotsMsgs, a : ChainSplits, b : ChainSplits]

\* What the caller holds: its inputs and the results of the calls made so far.
Held(in) ==
    [in |-> in, pk |-> <<>>, sig |-> <<>>, rec |-> <<>>, ok |-> FALSE,
     lengths |-> <<>>, vlengths |-> <<>>, part |-> <<>>, rest |-> <<>>, whole |-> <<>>]

\* The caller, one call after the other: GenPublicKey, Sign, PkFromSig and
\* Verify as in TestAll, then the length vectors and the chain in two parts
\* and in one.
InitWots ==
    /\ ConfirmsRequired = 1 /\ Branches = 3
    /\ \E seed \in RootSeeds, pubSeed \in RootPubSeeds : trees = <<New(seed, pubSeed, FALSE)>>
    /\ rng = FirstRandom
    /\ sigs = <<>>
    /\ \E in \in WotsInputs : in.a <= in.b /\ last = [op |-> "inputs", err |-> "", ret |-> Held(in)]

Then(op, before, ret) ==
    /\ last.op = before
    /\ last' = [op |-> op, err |-> "", ret |-> ret]
    /\ UNCHANGED <<ConfirmsRequired, Branches, trees, rng, sigs>>

CallGenPublicKey ==
    LET in == last.ret.in IN
    Then("wotsp.GenPublicKey", "inputs",
         [last.ret EXCEPT !.pk = wotspGenPublicKey(in.seed, in.pubSeed, in.adrs)])

CallSign ==
    LET in == last.ret.in IN
    Then("wotsp.Sign", "wotsp.GenPublicKey",
         [last.ret EXCEPT !.sig = wotspSign(in.msg, in.seed, in.pubSeed, in.adrs)])

CallPkFromSig ==
    LET in == last.ret.in IN
    Then("wotsp.PkFromSig", "wotsp.Sign",
         [last.ret EXCEPT !.rec = wotspPkFromSig(last.ret.sig, in.vmsg, in.pubSeed, in.adrs)])

CallVerify ==
    LET in == last.ret.in IN
    Then("wotsp.Verify", "wotsp.PkFromSig",
         [last.ret EXCEPT !.ok = wotspVerify(last.ret.pk, last.ret.sig, in.vmsg,
                                             in.pubSeed, in.adrs)])

CallLengths ==
    LET in == last.ret.in IN
    Then("wotsp.lengths", "wotsp.Verify",
         [last.ret EXCEPT !.lengths = Lengths(in.msg), !.vlengths = Lengths(in.vmsg)])

CallChainPart ==
    LET in == last.ret.in IN
    Then("wotsp.chain part", "wotsp.lengths",
         [last.ret EXCEPT !.part = chain(expandSeed(in.seed)[1], 0, in.a, in.adrs, in.pubSeed)])

CallChainRest ==
    LET in == last.ret.in IN
    Then("wotsp.chain rest", "wotsp.chain part",
         [last.ret EXCEPT !.rest = chain(last.ret.part, in.a, in.b - in.a, in.adrs, in.pubSeed)])

CallChainWhole ==
    LET in == last.ret.in IN
    Then("wotsp.chain whole", "wotsp.chain rest",
         [last.ret EXCEPT !.whole = chain(expandSeed(in.seed)[1], 0, in.b, in.adrs, in.pubSeed)])

NextWots ==
    \/ CallGenPublicKey
    \/ CallSign
    \/ CallPkFromSig
    \/ CallVerify
    \/ CallLengths
    \/ CallChainPart
    \/ CallChainRest
    \/ CallChainWhole

SpecWots == InitWots /\ [][NextWots]_vars

\* ------------------------------------------- Signature.Bytes, NewSignature

\* Byte at (from 1) of the 32-byte string v: a chain value, a hash, or the
\* seed [num |-> x].
ValueBytes(v) == [at \in 1..32 |-> [of |-> v, at |-> at]]

\* The 32-byte string that the bytes b are: the value they were taken from, in
\* order and whole, or else a string of its own.
FromBytes(b) ==
    IF \A j \in 1..32 : b[j].at = j /\ b[j].of = b[1].of THEN b[1].of ELSE [bytes |-> b]

RECURSIVE Flatten(_)
Flatten(vs) == IF vs = <<>> THEN <<>> ELSE ValueBytes(Head(vs)) \o Flatten(Tail(vs))

SignatureBytes(sig) ==
    Flatten(sig.SigBytes) \o ValueBytes([num |-> sig.PubSeed]) \o Flatten(sig.ChildHashes)

NoSig == <<>>

\* The seed that 32 decoded bytes are.
SeedOf(v) == IF DOMAIN v = {"num"} THEN v.num ELSE v

\* NewSignature that checks the length of its input but not its alignment.
NewSignatureNoAlignCheck(sigBytes, msg) ==
    IF Len(sigBytes) < SigLen + 32
    THEN [sig |-> NoSig, err |-> "ErrInvalidSigEncoding"]
    ELSE LET childBytes == SubSeq(sigBytes, SigLen + 32 + 1, Len(sigBytes)) IN
         [sig |-> Signature(
                     [i \in 1..l |-> FromBytes(SubSeq(sigBytes, 32 * (i - 1) + 1, 32 * i))],
                     SeedOf(FromBytes(SubSeq(sigBytes, SigLen + 1, SigLen + 32))),
                     [i \in 1..32 |-> IF i <= Len(msg) THEN msg[i] ELSE 0],
                     [i \in 1..(Len(childBytes) \div 32) |->
                         FromBytes(SubSeq(childBytes, 32 * (i - 1) + 1, 32 * i))]),
          err |-> ""]

\* NewSignature: the signature and the error.  Message is 32 zero bytes with
\* msg copied over them.
NewSignature(sigBytes, msg) ==
    IF Len(sigBytes) < SigLen + 32 \/ (Len(sigBytes) - (SigLen + 32)) % 32 # 0
    THEN [sig |-> NoSig, err |-> "ErrInvalidSigEncoding"]
    ELSE LET childBytes == SubSeq(sigBytes, SigLen + 32 + 1, Len(sigBytes)) IN
         [sig |-> Signature(
                     [i \in 1..l |-> FromBytes(SubSeq(sigBytes, 32 * (i - 1) + 1, 32 * i))],
                     SeedOf(FromBytes(SubSeq(sigBytes, SigLen + 1, SigLen + 32))),
                     [i \in 1..32 |-> IF i <= Len(msg) THEN msg[i] ELSE 0],
                     [i \in 1..(Len(childBytes) \div 32) |->
                         FromBytes(SubSeq(childBytes, 32 * (i - 1) + 1, 32 * i))]),
          err |-> ""]

\* Inputs of a caller that signs, encodes and decodes: messages of 32 bytes,
\* of 20 bytes and of none; the message handed to NewSignature (that of the
\* signature, or nil); and what is done to the encoding before it is decoded.
SigMsgs == {[i \in 1..32 |-> 2], [i \in 1..20 |-> 7], <<>>}
SigDecodeMsgs == {"Message", "nil"}
SigCuts == {"whole", "byte short", "byte long", "hash short", "hash long", "header",
            "short header", "empty"}

\* The bytes of one more public-key hash.
ExtraHash == ValueBytes(NodePkh(nyNode(0, 0, 0, 0)))

Cut(buf, cut) ==
    CASE cut = "whole" -> buf
      [] cut = "byte short" -> SubSeq(buf, 1, Len(buf) - 1)
      [] cut = "byte long" -> buf \o SubSeq(ExtraHash, 1, 1)
      [] cut = "hash short" -> SubSeq(buf, 1, Len(buf) - 32)
      [] cut = "hash long" -> buf \o ExtraHash
      [] cut = "header" -> SubSeq(buf, 1, SigLen + 32)
      [] cut = "short header" -> SubSeq(buf, 1, SigLen + 31)
      [] cut = "empty" -> <<>>

SigInputs ==
    [config : Configs, ots : BOOLEAN, msg : SigMsgs, txid : Txids,
     dmsg : SigDecodeMsgs, cut : SigCuts]

SigHeld(in) ==
    [in |-> in, sig |-> NoSig, buf |-> <<>>, dec |-> [sig |-> NoSig, err |-> ""],
     pk |-> [err |-> "", pk |-> <<>>], dpk |-> [err |-> "", pk |-> <<>>]]

\* The caller: Sign on a new tree, Bytes of the signature, NewSignature of the
\* bytes, PublicKey of both signatures.
InitSig ==
    /\ \E in \in SigInputs :
          /\ ConfirmsRequired = in.config[1] /\ Branches = in.config[2]
          /\ \E seed \in RootSeeds, pubSeed \in RootPubSeeds :
                trees = <<New(seed, pubSeed, in.ots)>>
          /\ last = [op |-> "inputs", err |-> "", ret |-> SigHeld(in)]
    /\ rng = FirstRandom
    /\ sigs = <<>>

SigThen(op, before, ret) ==
    /\ last.op = before
    /\ last' = [op |-> op, err |-> "", ret |-> ret]
    /\ UNCHANGED <<ConfirmsRequired, Branches, trees, rng, sigs>>

CallNodeSign ==
    LET in == last.ret.in IN
    SigThen("node.sign", "inputs",
            [last.ret EXCEPT !.sig = nodeSignSig(trees[1].nodes[1], in.msg, in.txid,
                                                 trees[1].ots, rng, Branches)])

CallSignatureBytes ==
    SigThen("Signature.Bytes", "node.sign",
            [last.ret EXCEPT !.buf = SignatureBytes(last.ret.sig)])

CallNewSignature ==
    LET in == last.ret.in IN
    SigThen("NewSignature", "Signature.Bytes",
            [last.ret EXCEPT !.dec = NewSignature(Cut(last.ret.buf, in.cut),
                                                  IF in.dmsg = "nil" THEN <<>>
                                                  ELSE last.ret.sig.Message)])

CallPublicKey ==
    SigThen("Signature.PublicKey", "NewSignature",
            [last.ret EXCEPT !.pk = SigPublicKey(last.ret.sig),
                             !.dpk = IF last.ret.dec.err = "" THEN SigPublicKey(last.ret.dec.sig)
                                     ELSE @])

NextSig ==
    \/ CallNodeSign
    \/ CallSignatureBytes
    \/ CallNewSignature
    \/ CallPublicKey

SpecSig == InitSig /\ [][NextSig]_vars

\* -------------------------------------- wotsp256 on the caller's Address

\* The W-OTS+ functions take a pointer to the caller's Address and write its
\* Chain, Hash and KeyAndMask fields; each returns its output, the Address as
\* it is left, and, for every chain call made, the start and steps passed and
\* the iterations the loop ran.
setHash(adrs, h) == [adrs EXCEPT !.hash = h]
setKeyAndMask(adrs, km) == [adrs EXCEPT !.km = km]

\* One iteration of the loop of chain: the key is prfPubSeed of the address a0,
\* the bitmask prfPubSeed of the address a1, the output F(key, out xor bitmask).
hashStep(out, a0, a1, pubSeed) ==
    IF a0.km = 0 /\ a1 = [a0 EXCEPT !.km = 1]
    THEN ApplySteps(out, StepKey(a0, pubSeed), a0.hash, a0.hash + 1)
    ELSE [out EXCEPT !.path = Append(@, [ps |-> pubSeed, key |-> a0, mask |-> a1,
                                         from |-> a0.hash, to |-> a0.hash + 1])]

\* The iterations i = from .. to-1 of the loop of chain, in order, on the output
\* out and the address adrs.  The range is halved to keep the evaluation
\* shallow, the second half following the first once that has run; the
\* iterations and their order are those of the loop.
RECURSIVE chainLoop(_, _, _, _, _)
chainLoop(out, from, to, adrs, pubSeed) ==
    IF from >= to THEN [out |-> out, adrs |-> adrs, iters |-> 0]
    ELSE IF to = from + 1
    THEN LET a0 == setKeyAndMask(setHash(adrs, from), 0)
             a1 == setKeyAndMask(a0, 1)
         IN [out |-> hashStep(out, a0, a1, pubSeed), adrs |-> a1, iters |-> 1]
    ELSE LET mid == (from + to) \div 2
             first == chainLoop(out, from, mid, adrs, pubSeed)
         IN IF first.iters # mid - from THEN first
            ELSE LET second == chainLoop(first.out, mid, to, first.adrs, pubSeed)
                 IN [second EXCEPT !.iters = first.iters + second.iters]

\* for i := start; i < start+steps; i++ with uint8 start, steps and i: the
\* bound start+steps is taken modulo 256, and i stays below it.
chainOn(in, start, steps, adrs, pubSeed) ==
    chainLoop(in, start, (start + steps) % Uint8, adrs, pubSeed)

\* The loop over the l chains without adrs.setChain.
RECURSIVE chainsOnKeepsChain(_, _, _, _, _, _)
chainsOnKeepsChain(i, ins, starts, steps, pubSeed, acc) ==
    IF i >= l THEN acc
    ELSE LET r == chainOn(ins[i + 1], starts[i + 1], steps[i + 1], acc.adrs, pubSeed)
         IN chainsOnKeepsChain(i + 1, ins, starts, steps, pubSeed,
                [out |-> Append(acc.out, r.out), adrs |-> r.adrs,
                 calls |-> Append(acc.calls, [start |-> starts[i + 1], steps |-> steps[i + 1],
                                              iters |-> r.iters])])

\* for i := 0; i < l; i++ { adrs.setChain(uint32(i)); chain(...); copy(...) }
RECURSIVE chainsOn(_, _, _, _, _, _)
chainsOn(i, ins, starts, steps, pubSeed, acc) ==
    IF i >= l THEN acc
    ELSE LET r == chainOn(ins[i + 1], starts[i + 1], steps[i + 1], setChain(acc.adrs, i), pubSeed)
         IN chainsOn(i + 1, ins, starts, steps, pubSeed,
                [out |-> Append(acc.out, r.out), adrs |-> r.adrs,
                 calls |-> Append(acc.calls, [start |-> starts[i + 1], steps |-> steps[i + 1],
                                              iters |-> r.iters])])

NoChains(adrs) == [out |-> <<>>, adrs |-> adrs, calls |-> <<>>]

wotspGenPublicKeyOn(seed, pubSeed, adrs) ==
    chainsOn(0, expandSeed(seed), [i \in 1..l |-> 0], [i \in 1..l |-> w - 1], pubSeed,
             NoChains(adrs))

wotspSignOn(msg, seed, pubSeed, adrs) ==
    chainsOn(0, expandSeed(seed), [i \in 1..l |-> 0], Lengths(msg), pubSeed, NoChains(adrs))

\* PkFromSig that asks every chain for w-1 steps from its start index.
wotspPkFromSigOnFullChain(sig, msg, pubSeed, adrs) ==
    chainsOn(0, sig, Lengths(msg), [i \in 1..l |-> w - 1], pubSeed, NoChains(adrs))

wotspPkFromSigOn(sig, msg, pubSeed, adrs) ==
    LET lengths == Lengths(msg) IN
    chainsOn(0, sig, lengths, [i \in 1..l |-> (w - 1 - lengths[i]) % Uint8], pubSeed,
             NoChains(adrs))

wotspVerifyOn(pk, sig, msg, pubSeed, adrs) ==
    LET r == wotspPkFromSigOn(sig, msg, pubSeed, adrs) IN [r EXCEPT !.out = (pk = r.out)]

\* A caller with two Address objects that hold the same Layer, Tree, Type and
\* OTS: a with Chain, Hash and KeyAndMask left over from other use, b fresh.  It
\* makes every call once with a and once with b, and never resets either.
AddrMsgs == {[i \in 1..32 |-> 0], [i \in 1..32 |-> IF i <= 2 THEN 255 ELSE 128]}
AddrOuters == {ZeroAddress, [ZeroAddress EXCEPT !.layer = 1, !.tree = 2, !.type = 1, !.ots = 7]}
AddrInners == {<<5, 9, 1>>, <<7, 300, 2>>}
AddrObject(outer, inner) ==
    [outer EXCEPT !.chain = inner[1], !.hash = inner[2], !.km = inner[3]]
AddrInputs ==
    {[seed |-> seed, pubSeed |-> pubSeed, msg |-> msg, vmsg |-> vmsg,
      a |-> AddrObject(outer, inner), b |-> outer] :
        seed \in RootSeeds, pubSeed \in RootPubSeeds, msg \in AddrMsgs,
        vmsg \in AddrMsgs, outer \in AddrOuters, inner \in AddrInners}

AddrHeld(in) ==
    [in |-> in, a |-> in.a, b |-> in.b, calls |-> <<>>,
     pkA |-> <<>>, pkB |-> <<>>, sigA |-> <<>>, sigB |-> <<>>,
     recA |-> <<>>, recB |-> <<>>, okA |-> FALSE, okB |-> FALSE]

InitAddr ==
    /\ ConfirmsRequired = 1 /\ Branches = 3
    /\ \E seed \in RootSeeds, pubSeed \in RootPubSeeds : trees = <<New(seed, pubSeed, FALSE)>>
    /\ rng = FirstRandom
    /\ sigs = <<>>
    /\ \E in \in AddrInputs : last = [op |-> "addr inputs", err |-> "", ret |-> AddrHeld(in)]

AddrThen(op, before, ret) ==
    /\ last.op = before
    /\ last' = [op |-> op, err |-> "", ret |-> ret]
    /\ UNCHANGED <<ConfirmsRequired, Branches, trees, rng, sigs>>

GenPublicKeyA ==
    LET h == last.ret
        r == wotspGenPublicKeyOn(h.in.seed, h.in.pubSeed, h.a)
    IN AddrThen("GenPublicKey a", "addr inputs",
                [h EXCEPT !.pkA = r.out, !.a = r.adrs, !.calls = r.calls])

GenPublicKeyB ==
    LET h == last.ret
        r == wotspGenPublicKeyOn(h.in.seed, h.in.pubSeed, h.b)
    IN AddrThen("GenPublicKey b", "GenPublicKey a",
                [h EXCEPT !.pkB = r.out, !.b = r.adrs, !.calls = r.calls])

SignA ==
    LET h == last.ret
        r == wotspSignOn(h.in.msg, h.in.seed, h.in.pubSeed, h.a)
    IN AddrThen("Sign a", "GenPublicKey b",
                [h EXCEPT !.sigA = r.out, !.a = r.adrs, !.calls = r.calls])

SignB ==
    LET h == last.ret
        r == wotspSignOn(h.in.msg, h.in.seed, h.in.pubSeed, h.b)
    IN AddrThen("Sign b", "Sign a",
                [h EXCEPT !.sigB = r.out, !.b = r.adrs, !.calls = r.calls])

PkFromSigA ==
    LET h == last.ret
        r == wotspPkFromSigOn(h.sigA, h.in.vmsg, h.in.pubSeed, h.a)
    IN AddrThen("PkFromSig a", "Sign b",
                [h EXCEPT !.recA = r.out, !.a = r.adrs, !.calls = r.calls])

PkFromSigB ==
    LET h == last.ret
        r == wotspPkFromSigOn(h.sigA, h.in.vmsg, h.in.pubSeed, h.b)
    IN AddrThen("PkFromSig b", "PkFromSig a",
                [h EXCEPT !.recB = r.out, !.b = r.adrs, !.calls = r.calls])

VerifyA ==
    LET h == last.ret
        r == wotspVerifyOn(h.pkA, h.sigA, h.in.vmsg, h.in.pubSeed, h.a)
    IN AddrThen("Verify a", "PkFromSig b",
                [h EXCEPT !.okA = r.out, !.a = r.adrs, !.calls = r.calls])

VerifyB ==
    LET h == last.ret
        r == wotspVerifyOn(h.pkA, h.sigA, h.in.vmsg, h.in.pubSeed, h.b)
    IN AddrThen("Verify b", "Verify a",
                [h EXCEPT !.okB = r.out, !.b = r.adrs, !.calls = r.calls])

NextAddr ==
    \/ GenPublicKeyA
    \/ GenPublicKeyB
    \/ SignA
    \/ SignB
    \/ PkFromSigA
    \/ PkFromSigB
    \/ VerifyA
    \/ VerifyB

SpecAddr == InitAddr /\ [][NextAddr]_vars

\* ========================================================= wotsp (w = 16)

w16 == 16
l1x16 == 64
l2x16 == 3
l16 == l1x16 + l2x16

\* The base-16 digits of x, high nibble first.
base16(x, outlen) ==
    [k \in 1..outlen |->
        LET byte == x[(k + 1) \div 2] IN
        IF k % 2 = 1 THEN byte \div 16 ELSE byte % 16]

checksum16(msg) ==
    LET csum == SumUpTo([i \in 1..l1x16 |-> w16 - 1 - msg[i]], l1x16)
        u16 == (csum * 16) % Uint16
        csumBytes == <<u16 \div 256, u16 % 256>>
    IN base16(csumBytes, l2x16)

Lengths16(msg) ==
    LET lengths == base16(msg, l1x16) IN lengths \o checksum16(lengths)

expandSeed16(seed) == [i \in 1..l16 |-> prfPrivSeed(seed, i - 1)]

\* make([]byte, l*n): a chain's place in the output before it is written.
ZeroBytes32 == [seed |-> 0, ctr |-> 0, path |-> <<>>]

\* chainsPerRoutine := l/numRoutines, without the round-up.
ChainsPerRoutineFloor(numRoutines) == l16 \div numRoutines

\* chainsPerRoutine := (l-1)/numRoutines + 1
ChainsPerRoutine(numRoutines) == (l16 - 1) \div numRoutines + 1

FirstChain(nr, numRoutines) == nr * ChainsPerRoutine(numRoutines)

\* lastChain, after "Make sure the last routine ends at the right chain".
LastChain(nr, numRoutines) ==
    LET lastChain == FirstChain(nr, numRoutines) + ChainsPerRoutine(numRoutines) - 1 IN
    IF lastChain >= l16 THEN l16 - 1 ELSE lastChain

\* A call of computeChains in progress.  addrs holds the Address objects: the
\* caller's first, then the copy made for each goroutine started; a goroutine
\* holds the index of the object it was passed and the number of its slice of
\* scratch.  writes counts the chain calls that wrote each chain of out;
\* addrUse and scratchUse record which goroutines wrote each Address object and
\* each 64-byte block of scratch.
ChainsCall(in, lengths, adrs, fromSig, pubSeed, numRoutines) ==
    [in |-> in, lengths |-> lengths, adrs |-> adrs, fromSig |-> fromSig,
     pubSeed |-> pubSeed, numRoutines |-> numRoutines,
     i |-> 0, wg |-> 0, routines |-> <<>>, addrs |-> <<adrs>>,
     out |-> [j \in 1..l16 |-> ZeroBytes32], writes |-> [j \in 1..l16 |-> 0],
     addrUse |-> [k \in 1..(numRoutines + 1) |-> {}],
     scratchUse |-> [k \in 1..numRoutines |-> {}],
     returned |-> FALSE]

\* The callers of computeChains: GenPublicKey (full chains from the private
\* key), Sign (lengths of a message) and PkFromSig (from a signature).
Msgs16 == {[i \in 1..32 |-> 0], [i \in 1..32 |-> IF i <= 2 THEN 255 ELSE 120]}
FullLengths16 == [i \in 1..l16 |-> w16 - 1]
Sig16(msg, seed, pubSeed, adrs) ==
    LET lengths == Lengths16(msg) IN
    [j \in 1..l16 |-> chain(expandSeed16(seed)[j], 0, lengths[j], setChain(adrs, j - 1), pubSeed)]
Addrs16 == {ZeroAddress, [ZeroAddress EXCEPT !.ots = 7, !.chain = 5, !.hash = 9, !.km = 1]}
ChainsCalls ==
    {ChainsCall(expandSeed16(seed), FullLengths16, adrs, FALSE, pubSeed, numRoutines) :
        seed \in RootSeeds, pubSeed \in RootPubSeeds, adrs \in Addrs16,
        numRoutines \in 1..MaxRoutines}
    \cup {ChainsCall(expandSeed16(seed), Lengths16(msg), adrs, FALSE, pubSeed, numRoutines) :
        seed \in RootSeeds, pubSeed \in RootPubSeeds, adrs \in {ZeroAddress},
        msg \in Msgs16, numRoutines \in 1..MaxRoutines}
    \cup {ChainsCall(Sig16(msg, seed, pubSeed, adrs), Lengths16(msg), adrs, TRUE, pubSeed,
                     numRoutines) :
        seed \in RootSeeds, pubSeed \in RootPubSeeds, adrs \in {ZeroAddress},
        msg \in {m \in Msgs16 : m[1] = 255}, numRoutines \in 1..MaxRoutines}

InitChains ==
    /\ ConfirmsRequired = 1 /\ Branches = 3
    /\ \E seed \in RootSeeds, pubSeed \in RootPubSeeds : trees = <<New(seed, pubSeed, FALSE)>>
    /\ rng = FirstRandom
    /\ sigs = <<>>
    /\ \E call \in ChainsCalls : last = [op |-> "computeChains", err |-> "", ret |-> call]

ChainsOps == {"computeChains", "go", "chain", "wg.Done"}

ChainsStep(op, ret) ==
    /\ last' = [op |-> op, err |-> "", ret |-> ret]
    /\ UNCHANGED <<ConfirmsRequired, Branches, trees, rng, sigs>>

\* One iteration of the loop that starts the goroutines: copy the Address,
\* wg.Add(1), go func(i, scratch[i*64:(i+1)*64], chainAdrs).
Go ==
    LET c == last.ret IN
    /\ last.op \in ChainsOps
    /\ c.i < c.numRoutines
    /\ ChainsStep("go",
          [c EXCEPT !.i = c.i + 1, !.wg = c.wg + 1,
                    !.addrs = Append(c.addrs, c.addrs[1]),
                    !.routines = Append(c.routines,
                        [nr |-> c.i, adrs |-> Len(c.addrs) + 1, scratch |-> c.i + 1,
                         j |-> FirstChain(c.i, c.numRoutines), done |-> FALSE])])

\* One iteration of the loop of goroutine r: adrs.setChain(j) and the chain
\* call for chain j, which writes out[j*n:(j+1)*n].
Chain(r) ==
    LET c == last.ret
        g == c.routines[r]
        j == g.j
        start == IF c.fromSig THEN c.lengths[j + 1] ELSE 0
        steps == IF c.fromSig THEN (w16 - 1 - c.lengths[j + 1]) % Uint8 ELSE c.lengths[j + 1]
        res == chainOn(c.in[j + 1], start, steps, setChain(c.addrs[g.adrs], j), c.pubSeed)
    IN /\ last.op \in ChainsOps
       /\ r \in 1..Len(c.routines)
       /\ ~g.done
       /\ j <= LastChain(g.nr, c.numRoutines)
       /\ ChainsStep("chain",
             [c EXCEPT !.out[j + 1] = res.out,
                       !.writes[j + 1] = @ + 1,
                       !.addrs[g.adrs] = res.adrs,
                       !.addrUse[g.adrs] = @ \cup {g.nr},
                       !.scratchUse[g.scratch] = @ \cup {g.nr},
                       !.routines[r].j = j + 1])

\* Goroutine r leaves its loop: wg.Done().
Done(r) ==
    LET c == last.ret
        g == c.routines[r]
    IN /\ last.op \in ChainsOps
       /\ r \in 1..Len(c.routines)
       /\ ~g.done
       /\ g.j > LastChain(g.nr, c.numRoutines)
       /\ ChainsStep("wg.Done", [c EXCEPT !.wg = c.wg - 1, !.routines[r].done = TRUE])

\* wg.Wait() after the loop that starts the goroutines; computeChains returns.
Wait ==
    LET c == last.ret IN
    /\ last.op \in ChainsOps
    /\ c.i = c.numRoutines
    /\ c.wg = 0
    /\ ChainsStep("wg.Wait", [c EXCEPT !.returned = TRUE])

NextChains ==
    \/ Go
    \/ \E r \in 1..MaxRoutines + 1 : Chain(r)
    \/ \E r \in 1..MaxRoutines + 1 : Done(r)
    \/ Wait

SpecChains == InitChains /\ [][NextChains]_vars

\* ================================================================== claims

KeyPair(node) == <<node.privSeed, node.pubSeed>>
Pool(t) == trees[t].nodes
TreeIds == 1..Len(trees)
SigIds == 1..Len(sigs)
Range(f) == {f[i] : i \in DOMAIN f}
ValidMsgs == {m \in Msgs : Len(m) <= 32}

\* C1: a node is consumed at most once.  No key pair is used by two successful
\* Sign calls, on the tree or on a tree its Backup returned: a key pair that has
\* signed is in no pool any more, and no key pair is held twice by the pools.
C1_ConsumedOnce ==
    /\ \A i, j \in SigIds : i # j => KeyPair(sigs[i].node) # KeyPair(sigs[j].node)
    /\ \A i \in SigIds : \A t \in TreeIds : \A k \in 1..Len(Pool(t)) :
          KeyPair(Pool(t)[k]) # KeyPair(sigs[i].node)
    /\ \A t, u \in TreeIds : \A k \in 1..Len(Pool(t)) : \A m \in 1..Len(Pool(u)) :
          KeyPair(Pool(t)[k]) = KeyPair(Pool(u)[m]) => (t = u /\ k = m)

\* Two Sign calls have succeeded, one of them on a tree that Backup returned,
\* with a node that Backup moved there.
C1_Witness ==
    /\ Len(trees) = 2
    /\ \E i, j \in SigIds : sigs[i].t = 1 /\ sigs[j].t = 2

\* C2: a successful Sign(msg, txid) removes exactly the node getSignNode chooses
\* (the first node with that txid, else the first confirmed node), keeps the
\* other nodes in their order and, on a non-OTS tree, appends the Branches
\* children at the tail in the order produced: the pool grows by Branches - 1
\* (non-OTS) or shrinks by 1 (OTS), and no other tree changes.
C2_SignStep ==
    Len(sigs') = Len(sigs) + 1 =>
        LET e == sigs'[Len(sigs')]
            old == trees[e.t].nodes
            new == trees'[e.t].nodes
            kept == Len(old) - 1
        IN /\ e.index \in 0..kept
           /\ e.node = old[e.index + 1]
           /\ IF \E k \in 1..Len(old) : old[k].txid = e.txid
              THEN /\ e.node.txid = e.txid
                   /\ \A k \in 1..e.index : old[k].txid # e.txid
              ELSE /\ e.node.confirms >= ConfirmsRequired
                   /\ \A k \in 1..e.index : old[k].confirms < ConfirmsRequired
           /\ \A k \in 1..kept : new[k] = IF k <= e.index THEN old[k] ELSE old[k + 1]
           /\ IF trees[e.t].ots
              THEN Len(new) = Len(old) - 1
              ELSE /\ Len(new) = Len(old) + Branches - 1
                   /\ \A i \in 1..Branches :
                         new[kept + i] = [privSeed |-> e.rnd + 2 * (i - 1),
                                          pubSeed |-> e.rnd + 2 * (i - 1) + 1,
                                          txid |-> e.txid, confirms |-> 0]
           /\ Len(trees') = Len(trees)
           /\ \A u \in TreeIds : u # e.t => trees'[u] = trees[u]

C3_Gated ==
    \A t \in TreeIds : \A msg \in ValidMsgs :
        (~trees[t].ots /\ \A k \in 1..Len(Pool(t)) : Pool(t)[k].confirms < ConfirmsRequired)
        => \A txid \in Txids \cup {MaxOf(Txids) + 1} :
              IF \E k \in 1..Len(Pool(t)) : Pool(t)[k].txid = txid
              THEN SignErr(trees[t], msg, txid, TRUE) = ""
              ELSE \A rngOk \in BOOLEAN :
                      SignErr(trees[t], msg, txid, rngOk) = "ErrTreeNoneAvailable"

C3_Step ==
    /\ \A t \in TreeIds : \A msg \in ValidMsgs : \A txid \in Txids :
          (last'.op = "Sign" /\ ~trees[t].ots /\ Sign(t, msg, txid, TRUE)) =>
              IF \E k \in 1..Len(Pool(t)) : Pool(t)[k].txid = txid
              THEN /\ last'.err = ""
                   /\ sigs'[Len(sigs')].node.txid = txid
              ELSE IF \E k \in 1..Len(Pool(t)) : Pool(t)[k].confirms >= ConfirmsRequired
              THEN /\ last'.err = ""
                   /\ sigs'[Len(sigs')].node.confirms >= ConfirmsRequired
              ELSE /\ last'.err = "ErrTreeNoneAvailable"
                   /\ trees' = trees
    /\ \A t \in TreeIds : \A c \in ConfirmValues : \A of \in KnownNodes(trees[t]) :
          (/\ last'.op = "Confirm"
           /\ ~trees[t].ots
           /\ c >= ConfirmsRequired
           /\ \E k \in 1..Len(Pool(t)) : KeyPair(Pool(t)[k]) = KeyPair(of)
           /\ Confirm(t, of, c)) =>
              \A msg \in ValidMsgs : \A txid \in Txids \cup {MaxOf(Txids) + 1} :
                  SignErr(trees'[t], msg, txid, TRUE) = ""

C3_ConfirmationGating == []C3_Gated /\ [][C3_Step]_vars

\* The root signed under a txid; a child of that signature, confirmed, then
\* signed under another txid, which no node of the pool had.
C3_Witness ==
    /\ Len(sigs) = 2 /\ ~trees[1].ots
    /\ sigs[1].node.privSeed \in RootSeeds
    /\ sigs[2].node.privSeed >= FirstRandom
    /\ sigs[2].node.txid = sigs[1].txid
    /\ sigs[2].txid # sigs[1].txid
    /\ sigs[2].node.confirms >= ConfirmsRequired
    /\ last = Called("Sign", "")

\* The public key a logged signature recovers.
SigPk(k) == SigPublicKeyOf(sigs[k]).pk

\* A chain of signatures with indices in S leads from signature k back to one
\* that recovers the long-term public key.
RECURSIVE TraceableIn(_, _)
TraceableIn(k, S) ==
    \/ SigPk(k) = PublicKey(trees[sigs[k].t])
    \/ \E j \in S : /\ j < k
                    /\ Sha256(SigPk(k)) \in Range(SigOf(sigs[j]).ChildHashes)
                    /\ TraceableIn(j, S)

\* C4: every signature of a non-OTS tree is traced back to the first one: there
\* is a chain of signatures, each recovering a public key whose hash is one of
\* the child hashes of the one before, that starts at a signature recovering
\* the long-term public key.  The chain of a signature of the tree New returned
\* stays within the signatures of that tree; the chain of a signature of a tree
\* Backup returned may pass through the tree the nodes came from.
C4_Traceable ==
    \A k \in SigIds : ~sigs[k].ots =>
        /\ SigPublicKeyOf(sigs[k]).err = ""
        /\ TraceableIn(k, SigIds)
        /\ sigs[k].t = 1 => TraceableIn(k, {j \in SigIds : sigs[j].t = 1})

\* The second signature does not recover the long-term key: its chain has the
\* first signature before it.
C4_Witness ==
    /\ Len(sigs) = 2
    /\ SigPk(2) # PublicKey(trees[1])
    /\ SigPk(1) = PublicKey(trees[1])
    /\ Sha256(SigPk(2)) \in Range(SigOf(sigs[1]).ChildHashes)

\* Signature c was made by a node that the Sign call of signature p appended.
ChildSig(p, c) ==
    /\ ~sigs[p].ots
    /\ \E i \in 1..Len(ChildrenOf(sigs[p])) :
          KeyPair(ChildrenOf(sigs[p])[i]) = KeyPair(sigs[c].node)

\* C5: child commitment.  The hash of the public key that a signature of an
\* appended node recovers is one of the child hashes of the signature whose
\* Sign call appended the node.
C5_ChildCommitment ==
    \A p, c \in SigIds :
        ChildSig(p, c) => /\ p < c
                          /\ Len(SigOf(sigs[p]).ChildHashes) = Branches
                          /\ Sha256(SigPk(c)) \in Range(SigOf(sigs[p]).ChildHashes)

\* A child signed on the tree Backup returned, after its parent signed on the
\* tree New returned.
C5_Witness ==
    /\ Len(sigs) = 2 /\ ChildSig(1, 2)
    /\ sigs[1].t = 1 /\ sigs[2].t = 2

\* C6: signature root link.  The first signature of a fresh tree, OTS or not,
\* under any txid, recovers the public key PublicKey returns.
C6_RootLink ==
    Len(sigs) >= 1 =>
        /\ sigs[1].t = 1
        /\ SigPublicKeyOf(sigs[1]) = [err |-> "", pk |-> PublicKey(trees[1])]

\* The first signature of a one-time tree, under a txid that is not the root's.
C6_Witness ==
    /\ Len(sigs) = 1 /\ trees[1].ots
    /\ sigs[1].txid # 0
    /\ Len(sigs[1].msg) = MsgLen

\* C7: one-time mode.  A tree created with ots = TRUE signs exactly once: the
\* first Sign succeeds, its signature has no child hashes and the pool is empty
\* afterwards (Available(nil) = 0); whatever Confirm, Available and Unconfirmed
\* calls follow, every later Sign of a message that passes the length check
\* fails with ErrTreeNoneAvailable.
C7_OneTime ==
    trees[1].ots =>
        /\ Len(trees) = 1
        /\ Len(sigs) <= 1
        /\ Len(sigs) = 0 =>
              \A msg \in ValidMsgs : \A txid \in Txids : \A rngOk \in BOOLEAN :
                  SignErr(trees[1], msg, txid, rngOk) = ""
        /\ Len(sigs) = 1 =>
              /\ Pool(1) = <<>>
              /\ AvailableCount(trees[1], Nil) = 0
              /\ SigOf(sigs[1]).ChildHashes = <<>>
              /\ \A msg \in ValidMsgs : \A txid \in Txids : \A rngOk \in BOOLEAN :
                    SignErr(trees[1], msg, txid, rngOk) = "ErrTreeNoneAvailable"
              /\ last.op = "Sign" =>
                    last.err \in {"", "ErrTreeNoneAvailable", "ErrInvalidMsgLen"}

\* The one-time tree has signed and has refused a second Sign.
C7_Witness ==
    /\ trees[1].ots /\ Len(sigs) = 1
    /\ last = Called("Sign", "ErrTreeNoneAvailable")

\* C8: every failed Sign leaves the tree unchanged, whichever the error; and a
\* Sign of a message longer than 32 bytes fails with ErrInvalidMsgLen whatever
\* the pool holds.
C8_Step ==
    /\ (last'.op = "Sign" /\ last'.err # "") =>
          /\ last'.err \in {"ErrInvalidMsgLen", "ErrTreeNoneAvailable", "RngFailure"}
          /\ trees' = trees
          /\ sigs' = sigs
    /\ \A t \in TreeIds : \A msg \in Msgs : \A txid \in Txids : \A rngOk \in BOOLEAN :
          (last'.op = "Sign" /\ Len(msg) > MsgLen /\ Sign(t, msg, txid, rngOk)) =>
              /\ last'.err = "ErrInvalidMsgLen"
              /\ trees' = trees

C8_FailedSignNoChange == [][C8_Step]_vars

\* The random source failed in a Sign on a pool of several nodes.
C8_Witness ==
    /\ last = Called("Sign", "RngFailure")
    /\ Len(Pool(1)) > 1

\* C9: New yields a tree of exactly one node, with the root seeds, the txid of
\* 32 zero bytes and ConfirmsRequired confirmations: Available(nil) is 1,
\* Unconfirmed is empty, and PublicKey and the public key of the root node are
\* the W-OTS+ public key of the seeds under the zero address.
C9_New ==
    last.op = "New" =>
        LET t == trees[1]
            root == t.nodes[1]
        IN /\ Len(trees) = 1
           /\ Len(t.nodes) = 1
           /\ t.rootSeed \in RootSeeds /\ t.rootPubSeed \in RootPubSeeds
           /\ root.privSeed = t.rootSeed /\ root.pubSeed = t.rootPubSeed
           /\ root.txid = 0
           /\ root.confirms = ConfirmsRequired
           /\ AvailableCount(t, Nil) = 1
           /\ UnconfirmedIdxs(t) = <<>> /\ UnconfirmedHashes(t) = <<>>
           /\ PublicKey(t) = genPubKey(root)
           /\ PublicKey(t) = wotspGenPublicKey(t.rootSeed, t.rootPubSeed, ZeroAddress)
           /\ \A i \in 1..l :
                 PublicKey(t)[i] =
                    [seed |-> t.rootSeed, ctr |-> i - 1,
                     path |-> <<[key |-> [ps |-> t.rootPubSeed, layer |-> 0, tree |-> 0,
                                          type |-> 0, ots |-> 0, chain |-> i - 1],
                                 from |-> 0, to |-> w - 1]>>]

\* A one-time tree just created, under ConfirmsRequired = 2.
C9_Witness ==
    /\ last = Called("New", "")
    /\ trees[1].ots /\ ConfirmsRequired = 2

\* C10: Confirm(pkh, c) sets confirms to c on every pool node whose public-key
\* hash is pkh and whose confirms is below ConfirmsRequired, and changes nothing
\* else: confirmed nodes keep their counter even when the hash matches, and
\* pool size, order, seeds, txids, root seeds and the other trees stay.
C10_Step ==
    \A t \in TreeIds : \A c \in ConfirmValues : \A of \in KnownNodes(trees[t]) :
        (last'.op = "Confirm" /\ Confirm(t, of, c)) =>
            LET old == trees[t].nodes
                new == trees'[t].nodes
            IN /\ Len(new) = Len(old)
               /\ \A i \in 1..Len(old) :
                     /\ new[i].privSeed = old[i].privSeed
                     /\ new[i].pubSeed = old[i].pubSeed
                     /\ new[i].txid = old[i].txid
                     /\ new[i].confirms =
                           IF /\ old[i].confirms < ConfirmsRequired
                              /\ Sha256(genPubKey(old[i])) = Sha256(genPubKey(of))
                           THEN c ELSE old[i].confirms
               /\ trees'[t].rootSeed = trees[t].rootSeed
               /\ trees'[t].rootPubSeed = trees[t].rootPubSeed
               /\ trees'[t].ots = trees[t].ots
               /\ Len(trees') = Len(trees)
               /\ \A u \in TreeIds : u # t => trees'[u] = trees[u]
               /\ sigs' = sigs

ConfirmStep == last'.op = "Confirm" /\ Len(trees') = Len(trees)

\* C11 as stated: over any sequence of Confirm calls the confirms value of a
\* pool node never decreases.
C11_Monotonic ==
    [][ConfirmStep =>
          \A t \in TreeIds : \A i \in 1..Len(Pool(t)) :
              trees'[t].nodes[i].confirms >= Pool(t)[i].confirms]_vars

\* C11 amended: a Confirm call never changes the counter of a node that has
\* ConfirmsRequired confirmations, and with ConfirmsRequired = 1 no counter
\* ever decreases; a counter below ConfirmsRequired is set to the value of the
\* call, which may be lower.
C11_Step ==
    ConfirmStep =>
        \A t \in TreeIds :
            /\ Len(trees'[t].nodes) = Len(Pool(t))
            /\ \A i \in 1..Len(Pool(t)) :
                  LET old == Pool(t)[i].confirms
                      new == trees'[t].nodes[i].confirms
                  IN /\ old >= ConfirmsRequired => new = old
                     /\ ConfirmsRequired = 1 => new >= old
                     /\ new < old => (old < ConfirmsRequired /\ new \in ConfirmValues)

C11_ConfirmedStays == [][C11_Step]_vars

\* A child was confirmed with more confirmations than required and a later
\* Confirm call left it so, next to a sibling without confirmations.
C11_Witness ==
    /\ last = Called("Confirm", "")
    /\ ConfirmsRequired = 1
    /\ \E i, j \in 1..Len(Pool(1)) :
          /\ Pool(1)[i].privSeed >= FirstRandom /\ Pool(1)[i].confirms = 2
          /\ Pool(1)[j].confirms = 0

\* The nodes of a pool that have the txid or are confirmed, each once, in order.
Eligible(nodes, txid) ==
    SelectSeq(nodes, LAMBDA nd : nd.txid = txid \/ nd.confirms >= ConfirmsRequired)

\* The pool of the first tree is what the first Sign left: the children of the
\* root, none confirmed.
AfterFirstSign ==
    /\ Len(sigs) = 1 /\ ~trees[1].ots
    /\ Pool(1) = ChildrenOf(sigs[1])

\* C12: Available(txid) is the number of pool nodes that have the txid or are
\* confirmed, each counted once.  On a fresh non-OTS tree Available(nil) = 1;
\* after one Sign under txid1, Available(nil) = 0 and Available(txid1) =
\* Branches; a Confirm call whose pkh is that of no pool node changes no
\* Available count.
C12_Counts ==
    /\ \A t \in TreeIds : \A txid \in Txids \cup {Nil} :
          /\ AvailableCount(trees[t], txid) = Len(Eligible(Pool(t), txid))
          /\ AvailableCount(trees[t], txid) <= Len(Pool(t))
    /\ (last.op = "New" /\ ~trees[1].ots) => AvailableCount(trees[1], Nil) = 1
    /\ AfterFirstSign =>
          /\ AvailableCount(trees[1], Nil) = 0
          /\ AvailableCount(trees[1], sigs[1].txid) = Branches

C12_Step ==
    \A t \in TreeIds : \A c \in ConfirmValues : \A of \in KnownNodes(trees[t]) :
        (/\ last'.op = "Confirm"
         /\ \A i \in 1..Len(Pool(t)) : KeyPair(Pool(t)[i]) # KeyPair(of)
         /\ Confirm(t, of, c)) =>
            \A txid \in Txids \cup {Nil} :
                AvailableCount(trees'[t], txid) = AvailableCount(trees[t], txid)

C12_Available == []C12_Counts /\ [][C12_Step]_vars

\* After the first Sign, a Confirm call with the hash of the root's public key,
\* which no pool node has, has returned.
C12_Witness ==
    /\ AfterFirstSign
    /\ Branches = 3
    /\ last = Called("Confirm", "")

\* The number of confirmed nodes of a pool, and of its unconfirmed nodes with
\* the txid of 32 zero bytes.
NumConfirmed(nodes) ==
    Cardinality({i \in 1..Len(nodes) : nodes[i].confirms >= ConfirmsRequired})
NumUnconfirmedZero(nodes) ==
    Cardinality({i \in 1..Len(nodes) :
                    nodes[i].confirms < ConfirmsRequired /\ nodes[i].txid = 0})

\* C13 as stated: with the txid absent (nil) or zero (32 zero bytes), Available
\* counts only the confirmed nodes, in every reachable state.
C13_AbsentOrZero ==
    \A t \in TreeIds : \A txid \in {Nil, 0} :
        AvailableCount(trees[t], txid) = NumConfirmed(Pool(t))

\* C13 amended: with the nil txid Available counts only the confirmed nodes;
\* the txid of 32 zero bytes is matched like any other, so Available(zero)
\* counts the confirmed nodes and the unconfirmed nodes that carry it.
C13_NilOnly ==
    \A t \in TreeIds :
        /\ AvailableCount(trees[t], Nil) = NumConfirmed(Pool(t))
        /\ AvailableCount(trees[t], 0)
              = NumConfirmed(Pool(t)) + NumUnconfirmedZero(Pool(t))

\* Available was called on a pool whose unconfirmed nodes carry the zero txid:
\* the children of a Sign called with it.
C13_Witness ==
    /\ AfterFirstSign
    /\ sigs[1].txid = 0
    /\ NumUnconfirmedZero(Pool(1)) = Branches
    /\ last = Called("Available", "")

\* The unconfirmed nodes of a pool, in pool order.
UnconfirmedNodes(nodes) == SelectSeq(nodes, LAMBDA nd : nd.confirms < ConfirmsRequired)

\* C14: Unconfirmed returns, in pool order, the public-key hash of exactly the
\* nodes with confirms < ConfirmsRequired, and does not modify the tree; so
\* len(Unconfirmed()) + Available(nil) is the pool size in every state, with
\* nothing unconfirmed on a fresh tree and Branches hashes after the first
\* non-OTS signature.
C14_Hashes ==
    /\ \A t \in TreeIds :
          LET hashes == UnconfirmedHashes(trees[t])
              nodes == UnconfirmedNodes(Pool(t))
          IN /\ Len(hashes) = Len(nodes)
             /\ \A i \in 1..Len(nodes) :
                   hashes[i] = Sha256(wotspGenPublicKey(nodes[i].privSeed, nodes[i].pubSeed,
                                                        ZeroAddress))
             /\ Len(hashes) + AvailableCount(trees[t], Nil) = Len(Pool(t))
    /\ last.op = "New" => UnconfirmedHashes(trees[1]) = <<>>
    /\ AfterFirstSign =>
          /\ Len(UnconfirmedHashes(trees[1])) = Branches
          /\ UnconfirmedHashes(trees[1]) = SigOf(sigs[1]).ChildHashes

C14_Step == last'.op = "Unconfirmed" => (trees' = trees /\ sigs' = sigs /\ rng' = rng)

C14_Unconfirmed == []C14_Hashes /\ [][C14_Step]_vars

\* Unconfirmed was called on a pool with a confirmed node before an
\* unconfirmed one.
C14_Witness ==
    /\ last = Called("Unconfirmed", "")
    /\ \E i, j \in 1..Len(Pool(1)) :
          /\ i < j
          /\ Pool(1)[i].confirms >= ConfirmsRequired
          /\ Pool(1)[j].confirms < ConfirmsRequired

\* The indices of the first count confirmed nodes of a pool.
FirstConfirmedIdxs(nodes, count) ==
    LET S == {i \in 1..Len(nodes) : nodes[i].confirms >= ConfirmsRequired} IN
    {i \in S : Cardinality({j \in S : j < i}) < count}

\* The step is a call of Backup that returned a tree and no error.
BackupDone == last'.op = "Backup" /\ last'.err = "" /\ Len(trees') = Len(trees) + 1

\* C15: a successful Backup(count) moves exactly the first count confirmed
\* nodes, in pool order, from self to the returned tree: the returned pool holds
\* them in that order, self keeps its other nodes in order, no node is in both
\* pools, and the returned tree has the root seeds of self.
C15_Step ==
    \A t \in TreeIds : \A count \in Counts :
        (BackupDone /\ Backup(t, count)) =>
            LET old == Pool(t)
                M == FirstConfirmedIdxs(old, count)
                self == trees'[t].nodes
                backup == trees'[Len(trees')]
            IN /\ ~trees[t].ots
               /\ count < NumConfirmed(old)
               /\ Cardinality(M) = count
               /\ Len(backup.nodes) = count
               /\ Len(self) = Len(old) - count
               /\ \A i \in 1..Len(old) :
                     IF i \in M
                     THEN backup.nodes[1 + Cardinality({j \in M : j < i})] = old[i]
                     ELSE self[i - Cardinality({j \in M : j < i})] = old[i]
               /\ \A i \in 1..Len(self) : \A k \in 1..Len(backup.nodes) :
                     KeyPair(self[i]) # KeyPair(backup.nodes[k])
               /\ backup.rootSeed = trees[t].rootSeed
               /\ backup.rootPubSeed = trees[t].rootPubSeed
               /\ backup.ots = trees[t].ots
               /\ \A u \in TreeIds : u # t => trees'[u] = trees[u]

C15_BackupMoves == [][C15_Step]_vars

\* Backup(2) returned a tree with two nodes, taken from around an unconfirmed
\* node that stayed, with a confirmed node left behind.
C15_Witness ==
    /\ last = Called("Backup", "") /\ Len(trees) = 2
    /\ Len(Pool(2)) = 2
    /\ \E i \in 1..Len(Pool(1)) :
          /\ Pool(1)[i].confirms < ConfirmsRequired
          /\ Pool(2)[1].privSeed < Pool(1)[i].privSeed
          /\ Pool(1)[i].privSeed < Pool(2)[2].privSeed
    /\ NumConfirmed(Pool(1)) >= 1

\* C16: when count >= Available(nil) on a non-OTS tree, Backup fails with
\* ErrTreeBackupFailed and the tree it returns with the error has the root
\* seeds of self and an empty pool.
C16_FailedBackupSharesSeeds ==
    (last.op = "Backup" /\ last.err = "ErrTreeBackupFailed") =>
        /\ last.ret # NoTree
        /\ last.ret.nodes = <<>>
        /\ \E t \in TreeIds :
              /\ ~trees[t].ots
              /\ last.ret.rootSeed = trees[t].rootSeed
              /\ last.ret.rootPubSeed = trees[t].rootPubSeed

\* C17: a backup is created only from a tree with more than one node available
\* for signing: whenever Backup(count) returns without error, self held at
\* least two nodes with confirms >= ConfirmsRequired when it was called.
C17_BackupNeedsTwo ==
    [][\A t \in TreeIds : \A count \in Counts :
          (BackupDone /\ Backup(t, count)) => NumConfirmed(Pool(t)) >= 2]_vars

\* ----------------------------------------------------------------------- C18
\* C18: serialization round trip.  For every tree reachable by New, Sign,
\* Confirm and Backup, Load of its Bytes succeeds and gives a tree with the
\* same ots flag, the same root seeds and the same nodes in the same order
\* (privSeed, pubSeed, txid, confirms), so that the Bytes of the loaded tree
\* are the Bytes of the original.
C18_Same(loaded, tree) ==
    /\ loaded.err = ""
    /\ loaded.tree.ots = tree.ots
    /\ loaded.tree.rootSeed = tree.rootSeed
    /\ loaded.tree.rootPubSeed = tree.rootPubSeed
    /\ Len(loaded.tree.nodes) = Len(tree.nodes)
    /\ \A i \in 1..Len(tree.nodes) :
          /\ loaded.tree.nodes[i].privSeed = tree.nodes[i].privSeed
          /\ loaded.tree.nodes[i].pubSeed = tree.nodes[i].pubSeed
          /\ loaded.tree.nodes[i].txid = tree.nodes[i].txid
          /\ loaded.tree.nodes[i].confirms = tree.nodes[i].confirms
    /\ TreeBytes(loaded.tree) = TreeBytes(tree)

C18_RoundTrip ==
    \A t \in TreeIds : C18_Same(LoadTree(TreeBytes(trees[t])), trees[t])

\* A tree left by Backup, holding nodes of a signature with confirmed and
\* unconfirmed ones among them, has been loaded from its bytes.
C18_Witness ==
    /\ last.op = "Load" /\ last.err = ""
    /\ Len(trees) = 2
    /\ \E t \in TreeIds :
          /\ last.ret = trees[t]
          /\ \E i, j \in 1..Len(Pool(t)) :
                /\ Pool(t)[i].confirms >= ConfirmsRequired
                /\ Pool(t)[j].confirms < ConfirmsRequired
                /\ Pool(t)[j].txid = 1

\* ----------------------------------------------------------------------- C19
\* C19: in every reachable tree state Bytes() is exactly 65 + 97 * |nodes|
\* bytes long: the ots byte (0x01 iff ots, else 0x00), rootSeed (32),
\* rootPubSeed (32), then for each node in pool order privSeed (32),
\* pubSeed (32), txid (32), confirms (1).
C19_Layout(b, tree) ==
    /\ Len(b) = 65 + 97 * Len(tree.nodes)
    /\ b[1] \in {0, 1}
    /\ b[1] = 1 <=> tree.ots
    /\ SubSeq(b, 2, 33) = Bytes32(tree.rootSeed)
    /\ SubSeq(b, 34, 65) = Bytes32(tree.rootPubSeed)
    /\ \A i \in 1..Len(tree.nodes) :
          LET at == 65 + 97 * (i - 1) IN
          /\ SubSeq(b, at + 1, at + 32) = Bytes32(tree.nodes[i].privSeed)
          /\ SubSeq(b, at + 33, at + 64) = Bytes32(tree.nodes[i].pubSeed)
          /\ SubSeq(b, at + 65, at + 96) = Bytes32(tree.nodes[i].txid)
          /\ b[at + 97] = tree.nodes[i].confirms

C19_AllTrees == \A t \in TreeIds : C19_Layout(TreeBytes(trees[t]), trees[t])

C19_Step ==
    \A t \in TreeIds :
        (last'.op = "Bytes" /\ Bytes(t)) => C19_Layout(last'.ret, trees[t])

C19_BytesLayout == []C19_AllTrees /\ [][C19_Step]_vars

\* Bytes has returned the bytes of a tree with several nodes that differ in
\* txid and in confirmations.
C19_Witness ==
    /\ last.op = "Bytes"
    /\ \E t \in TreeIds :
          /\ last.ret = TreeBytes(trees[t])
          /\ Len(last.ret) >= 65 + 2 * 97
          /\ \E i, j \in 1..Len(Pool(t)) :
                /\ Pool(t)[i].txid # Pool(t)[j].txid
                /\ Pool(t)[i].confirms # Pool(t)[j].confirms

\* ----------------------------------------------------------------------- C20
\* C20: Load(buf) fails with InvalidTreeInput when len(buf) < 65 and with
\* InvalidNodeInput when (len(buf) - 65) mod 97 # 0; it returns a tree only
\* for buffers of length 65 + 97k, with exactly k nodes (k = 0 gives an empty
\* pool), and never returns a partially loaded tree.
C20_Result(b, ret, err) ==
    /\ Len(b) < 65 => err = "ErrTreeInvalidInput"
    /\ Len(b) >= 65 /\ (Len(b) - 65) % 97 # 0 => err = "ErrNodeInvalidInput"
    /\ err # "" => ret = NoTree
    /\ err = "" =>
          /\ Len(b) >= 65 /\ (Len(b) - 65) % 97 = 0
          /\ Len(ret.nodes) * 97 = Len(b) - 65

C20_LoadErrors ==
    \A t \in TreeIds : \A b \in LoadInputs(TreeBytes(trees[t])) :
        LET r == LoadTree(b) IN C20_Result(b, r.tree, r.err)

\* Load has refused a buffer that holds two whole nodes and a short tail.
C20_Witness ==
    /\ last.op = "Load" /\ last.err = "ErrNodeInvalidInput" /\ last.ret = NoTree
    /\ \E t \in TreeIds : Len(Pool(t)) >= 3

\* ----------------------------------------------------------------------- C30
\* C30: every failed Backup leaves self unchanged.  A tree in OTS mode gives
\* ErrTreeBackupOneTime for any count and no tree; count >= Available(nil)
\* gives ErrTreeBackupFailed; in both cases the pool of self, the order of its
\* nodes, their confirms and the seeds are as before the call.
C30_Step ==
    \A t \in TreeIds : \A count \in Counts :
        (last'.op = "Backup" /\ Backup(t, count)) =>
            /\ trees[t].ots => last' = Called("Backup", "ErrTreeBackupOneTime")
            /\ (~trees[t].ots /\ count >= AvailableCount(trees[t], Nil))
                  => last'.err = "ErrTreeBackupFailed"
            /\ last'.err # "" => trees' = trees

C30_FailedBackupNoChange == [][C30_Step]_vars

\* Backup has failed on a tree that holds a confirmed node it could have
\* moved, among unconfirmed ones.
C30_Witness ==
    /\ last.op = "Backup" /\ last.err = "ErrTreeBackupFailed"
    /\ \E t \in TreeIds :
          /\ ~trees[t].ots
          /\ NumConfirmed(Pool(t)) = 1
          /\ Len(Pool(t)) >= 2

\* ----------------------------------------------------------------------- C21
\* C21: Wipe() sets the privSeed of every pool node and the rootSeed of the
\* tree to all zero bytes and leaves everything else unchanged: pool size and
\* order, the pubSeed, txid and confirms of every node, rootPubSeed and the
\* ots flag.
C21_Step ==
    \A t \in TreeIds :
        (last'.op = "Wipe" /\ Wipe(t)) =>
            /\ Len(trees') = Len(trees)
            /\ trees'[t].rootSeed = 0
            /\ trees'[t].rootPubSeed = trees[t].rootPubSeed
            /\ trees'[t].ots = trees[t].ots
            /\ Len(trees'[t].nodes) = Len(Pool(t))
            /\ \A i \in 1..Len(Pool(t)) :
                  /\ trees'[t].nodes[i].privSeed = 0
                  /\ trees'[t].nodes[i].pubSeed = Pool(t)[i].pubSeed
                  /\ trees'[t].nodes[i].txid = Pool(t)[i].txid
                  /\ trees'[t].nodes[i].confirms = Pool(t)[i].confirms
            /\ \A u \in TreeIds \ {t} : trees'[u] = trees[u]
            /\ UNCHANGED <<ConfirmsRequired, Branches, rng, sigs>>

C21_WipeFrame == [][C21_Step]_vars

\* Wipe has zeroed the seeds of a tree whose pool holds confirmed and
\* unconfirmed nodes with distinct public seeds and a non-zero txid.
C21_Witness ==
    /\ last.op = "Wipe"
    /\ \E t \in TreeIds :
          /\ trees[t].rootSeed = 0 /\ trees[t].rootPubSeed # 0
          /\ \A i \in 1..Len(Pool(t)) : Pool(t)[i].privSeed = 0
          /\ \E i, j \in 1..Len(Pool(t)) :
                /\ Pool(t)[i].confirms >= ConfirmsRequired
                /\ Pool(t)[j].confirms < ConfirmsRequired
                /\ Pool(t)[j].txid = 1
                /\ Pool(t)[i].pubSeed # Pool(t)[j].pubSeed

\* ----------------------------------------------------------------------- C22
\* C22: after Wipe() the tree is unusable for signing: no later Sign call on
\* that tree, with any msg and txid and after any further Confirm calls,
\* returns a signature.  (Tree 1 has a zero root seed exactly when Wipe has
\* been called on it.)
C22_WipedNeverSigns ==
    [][\A msg \in Msgs, txid \in Txids, rngOk \in BOOLEAN :
          (last'.op = "Sign" /\ trees[1].rootSeed = 0 /\ Sign(1, msg, txid, rngOk))
              => last'.err # ""]_vars

\* ----------------------------------------------------------------------- C23
\* C23: W-OTS+ verification round trip.  For any seed, pubSeed, 32-byte msg
\* and address, PkFromSig of the signature of msg, with msg, gives the public
\* key GenPublicKey gives, so Verify of that key, signature and message is
\* true; each of the three outputs is 34 chains of 32 bytes (1088 bytes).
WotsDone == {"wotsp.PkFromSig", "wotsp.Verify", "wotsp.lengths",
             "wotsp.chain part", "wotsp.chain rest", "wotsp.chain whole"}

C23_VerifyRoundTrip ==
    /\ last.op \in WotsDone =>
          /\ Len(last.ret.pk) = l /\ Len(last.ret.sig) = l /\ Len(last.ret.rec) = l
          /\ Len(last.ret.pk) * n = 1088 /\ PubKeyLen = 1088 /\ SigLen = 1088
          /\ last.ret.in.vmsg = last.ret.in.msg => last.ret.rec = last.ret.pk
    /\ (last.op \in WotsDone \ {"wotsp.PkFromSig"} /\ last.ret.in.vmsg = last.ret.in.msg)
          => last.ret.ok

\* Verify has accepted the signature of a message with digits 128 and 255,
\* made under an address that is not all zero.
C23_Witness ==
    /\ last.op = "wotsp.Verify" /\ last.ret.ok
    /\ last.ret.in.vmsg = last.ret.in.msg
    /\ last.ret.in.msg[1] = 128 /\ last.ret.in.msg[32] = 255
    /\ last.ret.in.adrs # ZeroAddress
    /\ last.ret.rec = last.ret.pk /\ last.ret.sig # last.ret.pk

\* ----------------------------------------------------------------------- C24
\* C24: chain composition.  For the same address and pubSeed and any split
\* 0 <= a <= b <= 255, chain(chain(x, 0, a), a, b - a) equals chain(x, 0, b);
\* with steps = 0 the output equals the input unchanged.
C24_ChainComposition ==
    /\ last.op = "wotsp.chain whole" => last.ret.rest = last.ret.whole
    /\ (last.op \in {"wotsp.chain rest", "wotsp.chain whole"} /\ last.ret.in.a = last.ret.in.b)
          => last.ret.rest = last.ret.part
    /\ (last.op \in {"wotsp.chain part", "wotsp.chain rest", "wotsp.chain whole"}
           /\ last.ret.in.a = 0)
          => last.ret.part = expandSeed(last.ret.in.seed)[1]

\* A chain has been walked in two parts, both with steps, and in one.
C24_Witness ==
    /\ last.op = "wotsp.chain whole"
    /\ 0 < last.ret.in.a /\ last.ret.in.a < last.ret.in.b /\ last.ret.in.b = 255
    /\ last.ret.part # last.ret.rest
    /\ last.ret.rest = last.ret.whole

\* ----------------------------------------------------------------------- C25
\* C25: for every 32-digit message m the two checksum digits appended to the
\* length vector are the 2-byte big-endian encoding of csum, the sum over i of
\* (255 - m[i]): digit 32 is csum div 256 and digit 33 is csum mod 256, with no
\* bits of csum lost.
C25_Csum(msg) == SumUpTo([i \in 1..32 |-> 255 - msg[i]], 32)

C25_ChecksumDigits ==
    last.op = "wotsp.lengths" =>
        /\ Len(last.ret.lengths) = 34
        /\ last.ret.lengths[33] = C25_Csum(last.ret.in.msg) \div 256
        /\ last.ret.lengths[34] = C25_Csum(last.ret.in.msg) % 256

\* ----------------------------------------------------------------------- C26
\* C26: the checksum digits prevent forgery by forward-chaining: for any two
\* distinct 32-byte messages m and m', some chain index i has
\* lengths(m')[i] < lengths(m)[i].
C26_NoForwardChaining ==
    (last.op = "wotsp.lengths" /\ last.ret.in.vmsg # last.ret.in.msg) =>
        \E i \in 1..34 : last.ret.vlengths[i] < last.ret.lengths[i]

\* ----------------------------------------------------------------------- C27
\* C27: signature encoding round trip.  Bytes() of a signature is
\* SigBytes (1088) || PubSeed (32) || ChildHashes in order, of length
\* 1120 + 32 * |ChildHashes|, and NewSignature(sig.Bytes(), sig.Message)
\* returns a signature with equal SigBytes, PubSeed, Message and the same
\* child hashes in the same order (none for an OTS signature), hence the same
\* PublicKey().
SigEncoded == {"Signature.Bytes", "NewSignature", "Signature.PublicKey"}
SigDecoded == {"NewSignature", "Signature.PublicKey"}

C27_Layout(buf, sig) ==
    /\ Len(buf) = 1120 + 32 * Len(sig.ChildHashes)
    /\ \A i \in 1..34 : SubSeq(buf, 32 * (i - 1) + 1, 32 * i) = ValueBytes(sig.SigBytes[i])
    /\ SubSeq(buf, 1089, 1120) = ValueBytes([num |-> sig.PubSeed])
    /\ \A i \in 1..Len(sig.ChildHashes) :
          SubSeq(buf, 1120 + 32 * (i - 1) + 1, 1120 + 32 * i) = ValueBytes(sig.ChildHashes[i])

C27_EncodingRoundTrip ==
    /\ last.op \in SigEncoded => C27_Layout(last.ret.buf, last.ret.sig)
    /\ (last.op \in SigDecoded /\ last.ret.in.cut = "whole" /\ last.ret.in.dmsg = "Message") =>
          /\ last.ret.dec.err = ""
          /\ last.ret.dec.sig.SigBytes = last.ret.sig.SigBytes
          /\ last.ret.dec.sig.PubSeed = last.ret.sig.PubSeed
          /\ last.ret.dec.sig.Message = last.ret.sig.Message
          /\ last.ret.dec.sig.ChildHashes = last.ret.sig.ChildHashes
          /\ last.ret.in.ots => last.ret.dec.sig.ChildHashes = <<>>
    /\ (last.op = "Signature.PublicKey" /\ last.ret.in.cut = "whole"
           /\ last.ret.in.dmsg = "Message") =>
          last.ret.dpk = last.ret.pk

\* ----------------------------------------------------------------------- C28
\* C28: decoding a signature fails with ErrInvalidSigEncoding exactly when
\* len(buf) < 1120 or (len(buf) - 1120) mod 32 # 0; every other buffer decodes
\* into (len(buf) - 1120) / 32 child hashes, and no signature is returned
\* together with the error.
C28_DecodeErrors ==
    last.op \in SigDecoded =>
        LET b == Cut(last.ret.buf, last.ret.in.cut)
            dec == last.ret.dec
        IN /\ dec.err \in {"", "ErrInvalidSigEncoding"}
           /\ dec.err # "" <=> (Len(b) < 1120 \/ (Len(b) - 1120) % 32 # 0)
           /\ dec.err # "" => dec.sig = NoSig
           /\ dec.err = "" =>
                 /\ Len(dec.sig.ChildHashes) * 32 = Len(b) - 1120
                 /\ \A i \in 1..Len(dec.sig.ChildHashes) :
                       ValueBytes(dec.sig.ChildHashes[i])
                           = SubSeq(b, 1120 + 32 * (i - 1) + 1, 1120 + 32 * i)

\* NewSignature has refused an encoding with child hashes that is a byte too
\* long.
C28_Witness ==
    /\ last.op = "NewSignature"
    /\ last.ret.dec.err = "ErrInvalidSigEncoding"
    /\ last.ret.in.cut = "byte long"
    /\ Len(last.ret.sig.ChildHashes) = 3
    /\ Len(last.ret.buf) = 1120 + 96

\* ----------------------------------------------------------------------- C29
\* C29: if the Message of a signature is missing, PublicKey() fails with
\* ErrSigMsgNotSet; this includes a signature decoded by NewSignature(buf, msg)
\* with a nil or empty msg.
C29_MissingMessage ==
    last.op = "Signature.PublicKey" =>
        /\ Len(last.ret.sig.Message) = 0 => last.ret.pk.err = "ErrSigMsgNotSet"
        /\ (last.ret.dec.err = "" /\ last.ret.in.dmsg = "nil")
              => last.ret.dpk.err = "ErrSigMsgNotSet"

\* The lowest index (from 0) of a set of positions of a pool, -1 of no position.
C32_Lowest(S) == IF S = {} THEN -1 ELSE (CHOOSE i \in S : \A j \in S : i <= j) - 1

C32_Expected(nodes, txid) ==
    LET same == {i \in 1..Len(nodes) : nodes[i].txid = txid}
        confirmed == {i \in 1..Len(nodes) : nodes[i].confirms >= ConfirmsRequired}
    IN IF same # {} THEN C32_Lowest(same) ELSE C32_Lowest(confirmed)

\* A pool and a txid for which the two passes differ: the first node with the
\* txid is unconfirmed and a confirmed node sits at a lower index.
C32_Overtaken(nodes, txid) ==
    \E i, j \in 1..Len(nodes) :
        /\ i < j
        /\ nodes[i].confirms >= ConfirmsRequired /\ nodes[i].txid # txid
        /\ nodes[j].txid = txid /\ nodes[j].confirms < ConfirmsRequired
        /\ \A k \in 1..(j - 1) : nodes[k].txid # txid

C32_Selected ==
    \A t \in TreeIds : \A txid \in Txids :
        getSignNode(trees[t], txid) = C32_Expected(Pool(t), txid)

C32_Step ==
    \A t \in TreeIds : \A msg \in Msgs : \A txid \in Txids : \A rngOk \in BOOLEAN :
        (/\ last'.op = "Sign"
         /\ Len(msg) <= MsgLen
         /\ Sign(t, msg, txid, rngOk)) =>
            /\ last'.err = "ErrTreeNoneAvailable" <=> C32_Expected(Pool(t), txid) = -1
            /\ last'.err = "" =>
                  /\ sigs'[Len(sigs')].index = C32_Expected(Pool(t), txid)
                  /\ sigs'[Len(sigs')].node = Pool(t)[C32_Expected(Pool(t), txid) + 1]

\* C32: getSignNode(txid) is the lowest index of a node with the txid, be it
\* unconfirmed and behind a confirmed node; with no such node it is the lowest
\* index of a node with confirms >= ConfirmsRequired; with none of these it is
\* -1, and Sign fails with ErrTreeNoneAvailable.  Sign signs with the node at
\* that index.
C32_FirstMatchTwoPasses == []C32_Selected /\ [][C32_Step]_vars

\* A Sign call has run getSignNode on a pool where a confirmed node of another
\* txid sits before the first, unconfirmed, node with the txid; the call failed
\* in node.sign, after the selection, and left the pool as it was.
C32_Witness ==
    /\ last = Called("Sign", "RngFailure")
    /\ \E txid \in Txids : C32_Overtaken(Pool(1), txid)

C35_Step ==
    \A t \in TreeIds : \A msg \in Msgs : \A txid \in Txids : \A rngOk \in BOOLEAN :
        (/\ last'.op = "Sign"
         /\ Len(msg) <= MsgLen
         /\ Sign(t, msg, txid, rngOk)) =>
            /\ last'.err = "ErrTreeNoneAvailable" <=> AvailableCount(trees[t], txid) = 0
            /\ rngOk => (last'.err = "" <=> AvailableCount(trees[t], txid) > 0)

\* C35: for every txid and every msg of at most 32 bytes, Sign(msg, txid) fails
\* with ErrTreeNoneAvailable exactly when Available(txid) is 0 just before the
\* call, and, when the random source does not fail, succeeds exactly when
\* Available(txid) is above 0.
C35_AvailableAgreesWithSign == [][C35_Step]_vars

\* A Sign call has failed with ErrTreeNoneAvailable on a pool that is not
\* empty, where Available is 0 for one txid and above 0 for another.
C35_Witness ==
    /\ last = Called("Sign", "ErrTreeNoneAvailable")
    /\ Len(Pool(1)) > 0
    /\ \E a, b \in Txids :
          AvailableCount(trees[1], a) = 0 /\ AvailableCount(trees[1], b) > 0

\* The pool after Confirm(h, ConfirmsRequired) was called for every h of hashes,
\* in order.
RECURSIVE C33_ConfirmAll(_, _)
C33_ConfirmAll(nodes, hashes) ==
    IF hashes = <<>> THEN nodes
    ELSE C33_ConfirmAll(ConfirmNodes(nodes, Head(hashes), ConfirmsRequired), Tail(hashes))

C33_Step ==
    \A t \in TreeIds : \A msg \in Msgs : \A txid \in Txids :
        (/\ last'.op = "Sign" /\ last'.err = ""
         /\ ~trees[t].ots
         /\ Sign(t, msg, txid, TRUE)) =>
            LET sig == SigOf(sigs'[Len(sigs')])
                pool == trees'[t].nodes
                kept == Len(Pool(t)) - 1
                confirmed == C33_ConfirmAll(pool, sig.ChildHashes)
            IN /\ Len(sig.ChildHashes) = Branches
               /\ Len(pool) = kept + Branches
               /\ \A i \in 1..Branches :
                     /\ sig.ChildHashes[i] = NodePkh(pool[kept + i])
                     /\ pool[kept + i].confirms = 0
                     /\ pool[kept + i].txid = txid
                     /\ confirmed[kept + i].confirms >= ConfirmsRequired
               /\ \A i \in 1..kept : pool[i] \in Range(Pool(t))

C33_First ==
    AfterFirstSign =>
        LET hashes == SigOf(sigs[1]).ChildHashes
            confirmed == [trees[1] EXCEPT !.nodes = C33_ConfirmAll(Pool(1), hashes)]
        IN /\ UnconfirmedHashes(trees[1]) = hashes
           /\ Len(hashes) = Branches
           /\ AvailableCount(confirmed, Nil) = Branches
           /\ UnconfirmedHashes(confirmed) = <<>>

AddrOps ==
    <<"GenPublicKey a", "GenPublicKey b", "Sign a", "Sign b",
      "PkFromSig a", "PkFromSig b", "Verify a", "Verify b">>
AddrFrom(k) == {AddrOps[i] : i \in k..Len(AddrOps)}
AddrOuter(adrs) ==
    [layer |-> adrs.layer, tree |-> adrs.tree, type |-> adrs.type, ots |-> adrs.ots]

\* C31: GenPublicKey, Sign, PkFromSig and Verify called with equal seeds, equal
\* message and signature and Address objects equal in Layer, Tree, Type and OTS
\* return equal outputs, whatever Chain, Hash and KeyAndMask the Address held
\* before the call (left over from other use, or from the earlier calls of the
\* same caller), and the calls leave Layer, Tree, Type and OTS as they were.
C31_Deterministic ==
    last.op \in AddrFrom(1) =>
        LET h == last.ret IN
        /\ AddrOuter(h.a) = AddrOuter(h.in.a)
        /\ AddrOuter(h.b) = AddrOuter(h.in.b)
        /\ last.op \in AddrFrom(2) =>
              /\ h.pkA = h.pkB
              /\ h.pkA = wotspGenPublicKey(h.in.seed, h.in.pubSeed, h.in.b)
        /\ last.op \in AddrFrom(4) =>
              /\ h.sigA = h.sigB
              /\ h.sigA = wotspSign(h.in.msg, h.in.seed, h.in.pubSeed, h.in.b)
        /\ last.op \in AddrFrom(6) =>
              /\ h.recA = h.recB
              /\ h.recA = wotspPkFromSig(h.sigA, h.in.vmsg, h.in.pubSeed, h.in.b)
        /\ last.op \in AddrFrom(8) =>
              /\ h.okA = h.okB
              /\ h.okA = (h.in.vmsg = h.in.msg)

\* All four functions have been called with both Address objects: the one came
\* in with Chain, Hash and KeyAndMask set and Layer, Tree, Type and OTS not
\* zero, both have been written by the calls, and the signature verified.
C31_Witness ==
    /\ last.op = "Verify b"
    /\ last.ret.in.a.hash = 300 /\ last.ret.in.a.km = 2 /\ last.ret.in.a.ots = 7
    /\ last.ret.in.b.hash = 0
    /\ last.ret.a # last.ret.in.a /\ last.ret.b # last.ret.in.b
    /\ last.ret.a.chain = l - 1
    /\ last.ret.in.msg[1] = 255
    /\ last.ret.okA /\ last.ret.okB
    /\ last.ret.sigA # last.ret.pkA

\* The hash indices of the iterations that made a chain value, in order.
RECURSIVE C36_Indices(_)
C36_Indices(path) ==
    IF path = <<>> THEN <<>>
    ELSE [k \in 1..(Head(path).to - Head(path).from) |-> Head(path).from + k - 1]
             \o C36_Indices(Tail(path))

\* The inputs and the outputs of the chain calls of the last call made.
C36_In ==
    IF last.op \in {"GenPublicKey a", "GenPublicKey b", "Sign a", "Sign b"}
    THEN expandSeed(last.ret.in.seed)
    ELSE last.ret.sigA

C36_Out ==
    CASE last.op = "GenPublicKey a" -> last.ret.pkA
      [] last.op = "GenPublicKey b" -> last.ret.pkB
      [] last.op = "Sign a" -> last.ret.sigA
      [] last.op = "Sign b" -> last.ret.sigB
      [] last.op = "PkFromSig a" -> last.ret.recA
      [] last.op = "PkFromSig b" -> last.ret.recB

\* C36: in every chain call made by GenPublicKey, Sign and PkFromSig (and by
\* Verify through PkFromSig), start + steps <= 255, so the 8-bit bound does not
\* wrap: the loop runs exactly steps iterations, with the hash indices start ..
\* start+steps-1 in order, for every length digit from 0 to 255.
C36_NoWrap ==
    last.op \in AddrFrom(1) =>
        LET calls == last.ret.calls IN
        /\ Len(calls) = l
        /\ \A i \in 1..l :
              /\ calls[i].start \in 0..255 /\ calls[i].steps \in 0..255
              /\ calls[i].start + calls[i].steps <= 255
              /\ calls[i].iters = calls[i].steps
        /\ last.op \in AddrFrom(1) \ AddrFrom(7) =>
              \A i \in 1..l :
                  C36_Indices(C36_Out[i].path)
                      = C36_Indices(C36_In[i].path)
                            \o [k \in 1..calls[i].steps |-> calls[i].start + k - 1]

\* PkFromSig has made chain calls for the digits 0 and 255: one of 255 steps
\* from index 0 and one of no steps from index 255, on a signature that holds
\* chain values 0, 128 and 255 steps from the private key.
C36_Witness ==
    /\ last.op = "PkFromSig a"
    /\ \E i, j \in 1..l :
          /\ last.ret.calls[i] = [start |-> 0, steps |-> 255, iters |-> 255]
          /\ last.ret.calls[j] = [start |-> 255, steps |-> 0, iters |-> 0]
    /\ \E i, j, k \in 1..l :
          /\ C36_Indices(last.ret.sigA[i].path) = <<>>
          /\ Len(C36_Indices(last.ret.sigA[j].path)) = 128
          /\ Len(C36_Indices(last.ret.sigA[k].path)) = 255

\* The chains goroutine nr computes when there are numRoutines goroutines.
C34_Range(nr, numRoutines) == FirstChain(nr, numRoutines)..LastChain(nr, numRoutines)

\* For every number of goroutines the ranges are pairwise disjoint and cover
\* the chains 0 .. l-1.
C34_Partition ==
    \A numRoutines \in 1..MaxRoutineCount :
        /\ \A a, b \in 0..(numRoutines - 1) :
              a < b => C34_Range(a, numRoutines) \cap C34_Range(b, numRoutines) = {}
        /\ UNION {C34_Range(nr, numRoutines) : nr \in 0..(numRoutines - 1)} = 0..(l16 - 1)

\* What one goroutine computes, chain after chain, on the caller's Address.
C34_Sequential(c) ==
    [j \in 1..l16 |->
        chain(c.in[j],
              IF c.fromSig THEN c.lengths[j] ELSE 0,
              IF c.fromSig THEN w16 - 1 - c.lengths[j] ELSE c.lengths[j],
              setChain(c.adrs, j - 1), c.pubSeed)]

\* C34: in computeChains (w = 16, l = 67), for every numRoutines >= 1, the
\* goroutines' chain ranges are pairwise disjoint and cover 0 .. l-1; no chain
\* is computed twice, a goroutine writes only the Address copy made for it and
\* its own 64-byte block of scratch, and the caller's Address is not written;
\* when computeChains returns, after wg.Wait, every goroutine is done, every
\* chain has been computed exactly once, and the output is the one a single
\* goroutine computes chain after chain.
C34_ParallelChains ==
    /\ last.op = "computeChains" => C34_Partition
    /\ last.op \in ChainsOps \cup {"wg.Wait"} =>
          LET c == last.ret IN
          /\ \A j \in 1..l16 : c.writes[j] <= 1
          /\ c.addrs[1] = c.adrs /\ c.addrUse[1] = {}
          /\ \A k \in 2..(c.numRoutines + 1) : c.addrUse[k] \subseteq {k - 2}
          /\ \A k \in 1..c.numRoutines : c.scratchUse[k] \subseteq {k - 1}
          /\ c.returned =>
                /\ Len(c.routines) = c.numRoutines
                /\ \A r \in 1..c.numRoutines : c.routines[r].done
                /\ \A j \in 1..l16 : c.writes[j] = 1
                /\ c.out = C34_Sequential(c)

\* computeChains has returned a public key made from a signature by three
\* goroutines, each of which has computed chains.
C34_Witness ==
    /\ last.op = "wg.Wait" /\ last.ret.returned
    /\ last.ret.numRoutines = 3 /\ last.ret.fromSig
    /\ \A k \in 2..4 : last.ret.addrUse[k] = {k - 2}
    /\ \A k \in 1..3 : last.ret.scratchUse[k] = {k - 1}
    /\ last.ret.out # last.ret.in
    /\ last.ret.out = [j \in 1..l16 |->
                          chain(expandSeed16(1)[j], 0, w16 - 1, setChain(ZeroAddress, j - 1), 3)]

====
